---- MODULE Spec2Model ----
(***************************************************************************)
(* Model of the chaindata squid's reconciliation pipeline                  *)
(* (src/src/processor.ts): the post-block hook that runs processorSteps in *)
(* order against a typeorm entity store holding Chain, EvmNetwork and      *)
(* Token entities.                                                         *)
(*                                                                         *)
(* The store is modelled as three functions from entity id to a record.    *)
(* Relations are held as ids (the code loads entities with                 *)
(* loadRelationIds: { disableMixedMap: true }, so a relation is an object  *)
(* {id} or null).  An optional value is Null (<<>>) or Some(v) (<<v>>).    *)
(* The store enforces nothing on relations: a delete never cascades and    *)
(* never fails.                                                            *)
(*                                                                         *)
(* The hook's store is the EntityManager of the transaction the processor  *)
(* (FullTypeormDatabase) opens for the block: chains, evmNetworks and      *)
(* tokens are that transaction's view, committed is the store it started   *)
(* from.  Only a specification in which a step can throw rolls back, so    *)
(* the others keep no snapshot (committed = Null).                         *)
(***************************************************************************)
EXTENDS Integers, Sequences, FiniteSets, TLC

VARIABLES
    chains,               \* store: Chain id -> Chain entity
    evmNetworks,          \* store: EvmNetwork id -> EvmNetwork entity
    tokens,               \* store: Token id -> Token entity
    processorSharedData,  \* githubChains, githubEvmNetworks, githubTokens
    plan,                 \* the step list the hook iterates over
    pc,                   \* index in plan of the next step; 0: no run in progress
    inflight,             \* the step in progress: its workers, its pending requests
    env,                  \* what the remote endpoints answered in the latest run
    hist,                 \* history: the last step, the graph the previous run left
    committed             \* the store as last committed, outside the block's transaction

vars == <<chains, evmNetworks, tokens, processorSharedData, plan, pc, inflight, env, hist,
          committed>>

-----------------------------------------------------------------------------
(* Optional values, sequences *)

Null == <<>>
Some(v) == <<v>>
IsSet(o) == o # Null
Val(o) == o[1]

Range(s) == {s[i] : i \in DOMAIN s}

SeqsUpTo(S, n) == UNION {[1..k -> S] : k \in 0..n}

RECURSIVE SelectIdx(_, _, _)
\* the elements of s, from index i on, that satisfy the index test keep[i]
SelectIdx(s, keep, i) ==
    IF i > Len(s) THEN <<>>
    ELSE (IF keep[i] THEN <<s[i]>> ELSE <<>>) \o SelectIdx(s, keep, i + 1)

-----------------------------------------------------------------------------
(* Bounds of the model *)

MaxChainFeed == 2     \* records in the chains feed
MaxRpcs == 2          \* endpoints of one chain or network

-----------------------------------------------------------------------------
(* The entity store *)

\* store.save(entity): upsert by id
Save(coll, e) == [i \in DOMAIN coll \cup {e.id} |-> IF i = e.id THEN e ELSE coll[i]]

\* store.delete(Entity, ids) / store.remove(entity)
Delete(coll, ids) == [i \in DOMAIN coll \ ids |-> coll[i]]

\* store.findOne(Entity, { where: { id } }): the entity or null
FindOne(coll, id) == IF id \in DOMAIN coll THEN Some(coll[id]) ELSE Null

\* new SubstrateRpc({ url, isHealthy: false }) / new EthereumRpc(...)
NewRpc(url) == [url |-> url, isHealthy |-> FALSE]

\* a Chain the store does not hold yet: only its id is set
NewChain(id) ==
    [id |-> id, isTestnet |-> FALSE, name |-> Null, rpcs |-> <<>>,
     isHealthy |-> FALSE, paraId |-> Null, relay |-> Null,
     nativeToken |-> Null, specVersion |-> Null, sortIndex |-> Null]

\* helpers.getOrCreate(store, Chain, id)
GetOrCreateChain(coll, id) == IF id \in DOMAIN coll THEN coll[id] ELSE NewChain(id)

-----------------------------------------------------------------------------
(* The config feed *)

Url(i) == "rpc" \o ToString(i)
RpcList(n) == [i \in 1..n |-> Url(i)]

-----------------------------------------------------------------------------
(* Step 2: updateChainsFromGithub *)

\* JS truthiness of githubChain.paraId: undefined and 0 are falsy
Truthy(paraId) == IsSet(paraId) /\ Val(paraId) # 0

\* the relay lookup of one record
RelayOf(coll, githubChain) ==
    IF IsSet(githubChain.relay) THEN FindOne(coll, Val(githubChain.relay)) ELSE Null

\* the body of the loop over the feed: one chain is wired and saved
UpsertChainKeepingParaId(coll, githubChain) ==
    LET chain == GetOrCreateChain(coll, githubChain.id)
        relay == RelayOf(coll, githubChain)
    IN  Save(coll,
             [chain EXCEPT
                 !.isTestnet = IsSet(githubChain.isTestnet) /\ Val(githubChain.isTestnet),
                 !.name = githubChain.name,
                 !.rpcs = [i \in DOMAIN githubChain.rpcs |-> NewRpc(githubChain.rpcs[i])],
                 !.paraId = IF Truthy(githubChain.paraId) THEN githubChain.paraId ELSE Null,
                 !.relay = IF IsSet(relay) THEN Some(Val(relay).id) ELSE Null])

UpsertChain(coll, githubChain) ==
    LET chain == GetOrCreateChain(coll, githubChain.id)
        relay == RelayOf(coll, githubChain)
        both  == IsSet(relay) /\ Truthy(githubChain.paraId)
    IN  Save(coll,
             [chain EXCEPT
                 !.isTestnet = IsSet(githubChain.isTestnet) /\ Val(githubChain.isTestnet),
                 !.name = githubChain.name,
                 !.rpcs = [i \in DOMAIN githubChain.rpcs |-> NewRpc(githubChain.rpcs[i])],
                 !.paraId = IF both THEN githubChain.paraId ELSE Null,
                 !.relay = IF both THEN Some(Val(relay).id) ELSE Null])

RECURSIVE UpsertChains(_, _, _)
UpsertChains(coll, feed, i) ==
    IF i > Len(feed) THEN coll
    ELSE UpsertChains(UpsertChain(coll, feed[i]), feed, i + 1)

\* ids left in deletedChainIdsMap after the loop
DeletedChainIdsNone(coll, feed) == {}

DeletedChainIds(coll, feed) == DOMAIN coll \ {feed[i].id : i \in DOMAIN feed}

ChainsAfterSync(coll, feed) ==
    Delete(UpsertChains(coll, feed, 1), DeletedChainIds(coll, feed))

-----------------------------------------------------------------------------
(* The post-block hook and the sequencing of the steps *)

numBlocksPerExecution == 50
skipBlocksOlderThan == 86400000

processorStepsRatesEarly ==
    <<"fetchDataFromGithub", "updateChainsFromGithub", "updateChainData",
      "updateEvmNetworksFromGithub", "updateSortIndexes", "updateTokensFromGithub",
      "updateTokenRates", "updateTokensTestnetField">>

processorSteps ==
    <<"fetchDataFromGithub", "updateChainsFromGithub", "updateChainData",
      "updateEvmNetworksFromGithub", "updateSortIndexes", "updateTokensFromGithub",
      "updateTokensTestnetField", "updateTokenRates">>

Graph == [chains |-> chains, evmNetworks |-> evmNetworks, tokens |-> tokens]

\* block heights and ages (Date.now() - block.timestamp) the hook is called with
BlockHeights == {numBlocksPerExecution - 1, numBlocksPerExecution, 2 * numBlocksPerExecution}
BlockAges == {0, skipBlocksOlderThan, skipBlocksOlderThan + 1}

AtStep(name) == pc \in DOMAIN plan /\ plan[pc] = name

\* the for loop of the hook moves on to the next step, or the hook returns
StepDone(name, before) ==
    /\ pc' = IF pc = Len(plan) THEN 0 ELSE pc + 1
    /\ hist' = [hist EXCEPT !.lastStep = name, !.before = before, !.block = Null]

\* Observation of two runs in succession.  hist.mode is "free" for an ordinary
\* run, "record" for a run whose inputs (feeds, endpoint answers, quotes) are
\* kept in env, and "replay" for the run after it, which is given the same
\* inputs again; hist.prevGraph is the graph the recorded run left.
Replayable(chosen, recorded) == hist.mode = "replay" => chosen = recorded

Recorded(field, chosen) ==
    IF hist.mode = "record" THEN [env EXCEPT ![field] = chosen] ELSE env

NextModes(twice) ==
    IF ~twice THEN {"free"}
    ELSE IF hist.mode = "record" THEN {"replay"} ELSE {"free", "record"}

NoInputs == [chainData |-> <<>>, evm |-> <<>>, prices |-> <<>>]

PostHookIgnoringAge(twice) ==
    /\ pc = 0
    /\ \E blockHeight \in BlockHeights, age \in BlockAges :
          IF blockHeight % numBlocksPerExecution # 0
          THEN /\ hist' = [hist EXCEPT !.lastStep = "skipped", !.before = Null,
                                       !.block = Some([height |-> blockHeight, age |-> age])]
               /\ UNCHANGED <<pc, env>>
          ELSE /\ pc' = 1
               /\ \E mode \in NextModes(twice) :
                     /\ hist' = [lastStep |-> "postHook", mode |-> mode, before |-> Null,
                                 prevGraph |-> IF mode = "replay" \/ IsSet(committed)
                                               THEN Some(Graph) ELSE Null,
                                 block |-> Some([height |-> blockHeight, age |-> age])]
                     /\ env' = IF mode = "replay" THEN env ELSE NoInputs
    /\ committed' = IF IsSet(committed) THEN Some(Graph) ELSE Null
    /\ UNCHANGED <<chains, evmNetworks, tokens, processorSharedData, plan, inflight>>

\* processor.addPostHook: the two early returns, else the steps are started;
\* hist.block keeps the block the hook was called for until a step is done
PostHook(twice) ==
    /\ pc = 0
    /\ \E blockHeight \in BlockHeights, age \in BlockAges :
          IF blockHeight % numBlocksPerExecution # 0 \/ age > skipBlocksOlderThan
          THEN /\ hist' = [hist EXCEPT !.lastStep = "skipped", !.before = Null,
                                       !.block = Some([height |-> blockHeight, age |-> age])]
               /\ UNCHANGED <<pc, env>>
          ELSE /\ pc' = 1
               /\ \E mode \in NextModes(twice) :
                     /\ hist' = [lastStep |-> "postHook", mode |-> mode, before |-> Null,
                                 prevGraph |-> IF mode = "replay" \/ IsSet(committed)
                                               THEN Some(Graph) ELSE Null,
                                 block |-> Some([height |-> blockHeight, age |-> age])]
                     /\ env' = IF mode = "replay" THEN env ELSE NoInputs
    /\ committed' = IF IsSet(committed) THEN Some(Graph) ELSE Null
    /\ UNCHANGED <<chains, evmNetworks, tokens, processorSharedData, plan, inflight>>

-----------------------------------------------------------------------------
(* Step 1: fetchDataFromGithub *)

\* testnets-chaindata.json records are tagged isTestnet: true
TagTestnet(doc) == [i \in DOMAIN doc |-> [doc[i] EXCEPT !.isTestnet = Some(TRUE)]]

FetchDataFromGithub(ChainDocs, TestnetDocs, EvmDocs, TokenDocs) ==
    /\ AtStep("fetchDataFromGithub")
    /\ \E chainsDoc \in ChainDocs, testnetsDoc \in TestnetDocs,
          evmDoc \in EvmDocs, tokensDoc \in TokenDocs :
          /\ Len(chainsDoc) + Len(testnetsDoc) <= MaxChainFeed
          /\ processorSharedData' =
                 [githubChains |-> chainsDoc \o TagTestnet(testnetsDoc),
                  githubEvmNetworks |-> evmDoc,
                  githubTokens |-> tokensDoc]
          /\ Replayable(processorSharedData', processorSharedData)
          /\ StepDone("fetchDataFromGithub", Null)
    /\ UNCHANGED <<chains, evmNetworks, tokens, plan, inflight, env, committed>>

-----------------------------------------------------------------------------
(* Step 2 as an action *)

UpdateChainsFromGithub ==
    /\ AtStep("updateChainsFromGithub")
    /\ chains' = ChainsAfterSync(chains, processorSharedData.githubChains)
    /\ StepDone("updateChainsFromGithub", Some(DOMAIN chains))
    /\ UNCHANGED <<evmNetworks, tokens, processorSharedData, plan, inflight, env, committed>>


-----------------------------------------------------------------------------
(* Tokens *)

\* helpers.nativeTokenId / ormlTokenId / erc20TokenId: the id is derived from
\* the anchor (chain id or network id), the kind and the symbol or address
nativeTokenId(anchor, symbol) == <<anchor, "native", symbol>>
ormlTokenId(chainId, symbol) == <<chainId, "orml", symbol>>
erc20TokenId(networkId, contractAddress) == <<networkId, "erc20", contractAddress>>

\* a token variant the store does not hold yet
NewToken(kind, id) ==
    [id |-> id, isTypeOf |-> kind, symbol |-> Null, decimals |-> Null,
     coingeckoId |-> Null, isTestnet |-> FALSE, rates |-> Null, stateKey |-> Null,
     chain |-> Null, evmNetwork |-> Null]

\* helpers.getOrCreateToken(store, Kind, id): the stored variant when it is of
\* that kind, else a new one
GetOrCreateToken(coll, kind, id) ==
    IF id \in DOMAIN coll /\ coll[id].isTypeOf = kind THEN coll[id] ELSE NewToken(kind, id)

\* helpers.saveToken(store, token)
SaveToken(coll, token) == Save(coll, token)

\* helpers.twox64Concat: the storage-key hash, kept as an injective tag
twox64Concat(bytes) == <<"twox64", bytes>>

\* helpers.tokenSymbolWorkarounds(chainId): overrides for known chains
tokenSymbolWorkarounds(chainId) ==
    IF chainId = "c3"
    THEN Some([symbols |-> <<"MGX">>, decimals |-> <<18>>,
               stateKeys |-> [s \in {"MGX"} |-> twox64Concat(<<0, 0>>)]])
    ELSE Null

-----------------------------------------------------------------------------
(* Step 3: updateChainData, the work done for one chain *)

\* lines 173-215: every rpc is probed, the chain is healthy when one answered
Probed(chain, health) ==
    LET rpcs == [i \in DOMAIN chain.rpcs |-> [chain.rpcs[i] EXCEPT !.isHealthy = health[i]]]
    IN  [chain EXCEPT !.rpcs = rpcs,
                      !.isHealthy = \E i \in DOMAIN rpcs : rpcs[i].isHealthy]

HealthyRpcUrls(chain) ==
    LET keep == [i \in DOMAIN chain.rpcs |-> chain.rpcs[i].isHealthy]
        kept == SelectIdx(chain.rpcs, keep, 1)
    IN  [i \in DOMAIN kept |-> kept[i].url]

MaxAttemptsOncePerRpc(chain) == Len(HealthyRpcUrls(chain))

MaxAttempts(chain) == Len(HealthyRpcUrls(chain)) * 2

\* the endpoint attempt number k connects to
AttemptUrl(urls, attempt) == urls[((attempt - 1) % Len(urls)) + 1]

\* lines 261-282: symbol -> storage key, from the metadata's enums
TokenStateKeyLookup(data) ==
    LET variants == data.tokenSymbolVariants
        idx0 == IF IsSet(data.tokensCurrencyIdIndex) THEN Val(data.tokensCurrencyIdIndex) ELSE 0
    IN  [name \in {variants[i].name : i \in DOMAIN variants} |->
            LET i == CHOOSE j \in DOMAIN variants :
                        /\ variants[j].name = name
                        /\ \A k \in DOMAIN variants : variants[k].name = name => k <= j
            IN  twox64Concat(<<idx0, variants[i].index>>)]

\* lines 284-286: a workaround wins over what the chain reports
TokenSymbols(chainId, data) ==
    IF IsSet(tokenSymbolWorkarounds(chainId))
    THEN Val(tokenSymbolWorkarounds(chainId)).symbols ELSE data.tokenSymbol
TokenDecimals(chainId, data) ==
    IF IsSet(tokenSymbolWorkarounds(chainId))
    THEN Val(tokenSymbolWorkarounds(chainId)).decimals ELSE data.tokenDecimals
TokenStateKeys(chainId, data) ==
    IF IsSet(tokenSymbolWorkarounds(chainId))
    THEN Val(tokenSymbolWorkarounds(chainId)).stateKeys ELSE TokenStateKeyLookup(data)

\* tokenDecimals[index] of a JS array: undefined past its end
At(seq, i) == IF i \in DOMAIN seq THEN Some(seq[i]) ELSE Null

RECURSIVE UpsertOrmlTokens(_, _, _, _, _, _)
\* lines 295-309: one OrmlToken per symbol that has a storage key
UpsertOrmlTokens(coll, chainId, symbols, decimals, stateKeys, i) ==
    IF i > Len(symbols) THEN coll
    ELSE IF symbols[i] \notin DOMAIN stateKeys
         THEN UpsertOrmlTokens(coll, chainId, symbols, decimals, stateKeys, i + 1)
         ELSE LET token == GetOrCreateToken(coll, "OrmlToken", ormlTokenId(chainId, symbols[i]))
                  saved == SaveToken(coll, [token EXCEPT !.symbol = Some(symbols[i]),
                                                         !.decimals = At(decimals, i),
                                                         !.stateKey = Some(stateKeys[symbols[i]]),
                                                         !.chain = Some(chainId)])
              IN  UpsertOrmlTokens(saved, chainId, symbols, decimals, stateKeys, i + 1)

ExistingOrmlTokensOfAnyChain(coll, chainId) ==
    {t \in DOMAIN coll : IsSet(coll[t].chain) /\ coll[t].isTypeOf = "OrmlToken"}

\* lines 288-294: the OrmlTokens the store holds for the chain
ExistingOrmlTokens(coll, chainId) ==
    {t \in DOMAIN coll : coll[t].chain = Some(chainId) /\ coll[t].isTypeOf = "OrmlToken"}

DeletedOrmlTokensNone(coll, chainId, symbols, stateKeys) == {}

\* ids left in deletedTokensMap after the loop
DeletedOrmlTokens(coll, chainId, symbols, stateKeys) ==
    ExistingOrmlTokens(coll, chainId) \
        {ormlTokenId(chainId, symbols[i]) : i \in {j \in DOMAIN symbols : symbols[j] \in DOMAIN stateKeys}}

\* Array.isArray(tokenSymbol) ? tokenSymbol : []  -- a workaround's symbols are
\* an array; system_properties gives an array (data.isArray) or one string,
\* which data.tokenSymbol then holds as its only element
OrmlSymbols(chainId, data) ==
    IF IsSet(tokenSymbolWorkarounds(chainId)) \/ data.isArray
    THEN TokenSymbols(chainId, data) ELSE <<>>

\* lines 250-338: a successful attempt writes the tokens and the chain
Extracted(g, chainId, data) ==
    LET symbols   == TokenSymbols(chainId, data)
        decimals  == TokenDecimals(chainId, data)
        stateKeys == TokenStateKeys(chainId, data)
        orml      == OrmlSymbols(chainId, data)
        tokens1   == UpsertOrmlTokens(g.tokens, chainId, orml, decimals, stateKeys, 1)
        tokens2   == Delete(tokens1, DeletedOrmlTokens(g.tokens, chainId, orml, stateKeys))
        chain     == GetOrCreateChain(g.chains, chainId)
        nativeId  == nativeTokenId(chainId, symbols[1])
        native    == GetOrCreateToken(tokens2, "NativeToken", nativeId)
        tokens3   == SaveToken(tokens2, [native EXCEPT !.symbol = Some(symbols[1]),
                                                       !.decimals = At(decimals, 1)])
    IN  [g EXCEPT !.tokens = tokens3,
                  !.chains = Save(g.chains, [chain EXCEPT !.specVersion = Some(data.specVersion),
                                                         !.nativeToken = Some(nativeId)])]

ExhaustedDroppingTokens(g, chain) ==
    [g EXCEPT !.chains = Save(g.chains, [chain EXCEPT !.isHealthy = FALSE]),
              !.tokens = Delete(g.tokens, ExistingOrmlTokens(g.tokens, chain.id))]

\* lines 352-356: ran out of attempts
Exhausted(g, chain) == [g EXCEPT !.chains = Save(g.chains, [chain EXCEPT !.isHealthy = FALSE])]

\* the whole worker of one chain, given what its endpoints answer:
\* o.health[i] the probe of rpc i, o.result the data of the first attempt
\* that succeeds, Null when every attempt fails
ChainWorker(g, chainId, o) ==
    LET chain == Probed(g.chains[chainId], o.health)
        g1 == [g EXCEPT !.chains = Save(g.chains, chain)]
    IN  IF MaxAttempts(chain) > 0 /\ IsSet(o.result)
        THEN Extracted(g1, chainId, Val(o.result))
        ELSE Exhausted(g1, chain)

\* what the endpoints of a chain may answer: a probe result per rpc and, when
\* some rpc is healthy, the data of a successful attempt or Null
ChainOutcomes(chain, Bundles) ==
    {o \in [health : [DOMAIN chain.rpcs -> BOOLEAN], result : {Null} \cup {Some(b) : b \in Bundles}] :
        (\A i \in DOMAIN chain.rpcs : ~o.health[i]) => o.result = Null}

RECURSIVE RunChainWorkers(_, _, _)
\* pMap over the chains; a worker writes its own chain and that chain's tokens
RunChainWorkers(g, todo, outcomes) ==
    IF todo = {} THEN g
    ELSE LET c == CHOOSE x \in todo : TRUE
         IN  RunChainWorkers(ChainWorker(g, c, outcomes[c]), todo \ {c}, outcomes)

\* updateChainData with every worker run to its end
UpdateChainData(Bundles) ==
    /\ AtStep("updateChainData")
    /\ \E outcomes \in [DOMAIN chains -> UNION {ChainOutcomes(chains[c], Bundles) : c \in DOMAIN chains}] :
          /\ \A c \in DOMAIN chains : outcomes[c] \in ChainOutcomes(chains[c], Bundles)
          /\ LET g == RunChainWorkers(Graph, DOMAIN chains, outcomes)
             IN  /\ chains' = g.chains
                 /\ tokens' = g.tokens
          /\ Replayable(outcomes, env.chainData)
          /\ env' = Recorded("chainData", outcomes)
          /\ StepDone("updateChainData", Null)
    /\ UNCHANGED <<evmNetworks, processorSharedData, plan, inflight, committed>>

(* The same step with its workers running: pMap starts a worker per chain, *)
(* at most processSubstrateChainsConcurrency at a time; a worker probes its  *)
(* rpcs, then makes its attempts one after the other.                        *)

processSubstrateChainsConcurrency == 20

Workers == Val(inflight).workers

Running(w) == {c \in DOMAIN w : w[c].phase \in {"probing", "extracting"}}

\* socket.disconnect() returns or throws
DisconnectResults == {"ok", "error"}

\* the probes of one chain whose disconnect throws
DisconnectFaults(rpcs) == SUBSET rpcs

\* line 165: the chains are loaded, one worker each.  Of a worker: socket is
\* the connection of the attempt in flight, log the url of every attempt
\* started, closed the number of attempts whose socket.disconnect() has been
\* called, data what its successful attempt got.  event is what the latest
\* step of a worker met at its endpoints, overlap whether a worker was started
\* while another was running
ChainDataStarted ==
    /\ AtStep("updateChainData")
    /\ inflight = Null
    /\ inflight' = Some([start |-> Graph, event |-> Null, overlap |-> FALSE,
                         workers |-> [c \in DOMAIN chains |->
                             [phase |-> "queued", chain |-> chains[c], attempt |-> 0,
                              socket |-> Null, log |-> <<>>, outcome |-> "none",
                              closed |-> 0, data |-> Null]]])
    /\ UNCHANGED <<chains, evmNetworks, tokens, processorSharedData, plan, pc, env, hist, committed>>

\* pMap hands a chain to a free worker slot
WorkerStarts ==
    /\ IsSet(inflight)
    /\ \E c \in DOMAIN Workers :
          /\ Workers[c].phase = "queued"
          /\ Cardinality(Running(Workers)) < processSubstrateChainsConcurrency
          /\ inflight' = Some([Val(inflight) EXCEPT
                 !.workers[c].phase = "probing",
                 !.overlap = @ \/ Running(Workers) # {},
                 !.event = Null])
    /\ UNCHANGED <<chains, evmNetworks, tokens, processorSharedData, plan, pc, env, hist, committed>>

\* lines 177-208: rpc.isHealthy is set in the try or the catch; what the
\* disconnect of the finally does is caught and logged
ProbeHealth(answered, threw) == answered

\* lines 173-218: the rpcs are probed, each probe closes its socket, and the
\* chain is saved.  answered[i]: the genesis hash request of rpc i returned;
\* threw: the probes whose socket.disconnect() threw
WorkerProbed ==
    /\ IsSet(inflight)
    /\ \E c \in DOMAIN Workers :
          /\ Workers[c].phase = "probing"
          /\ \E answered \in [DOMAIN Workers[c].chain.rpcs -> BOOLEAN],
                threw \in DisconnectFaults(DOMAIN Workers[c].chain.rpcs) :
                LET chain == Probed(Workers[c].chain, ProbeHealth(answered, threw))
                IN  /\ chains' = Save(chains, chain)
                    /\ inflight' = Some([Val(inflight) EXCEPT
                           !.workers[c].phase = "extracting",
                           !.workers[c].chain = chain,
                           !.workers[c].attempt = 1,
                           !.event = Some([chain |-> c, kind |-> "probes",
                                           answered |-> answered,
                                           closed |-> DOMAIN answered,
                                           threw |-> threw])])
    /\ UNCHANGED <<evmNetworks, tokens, processorSharedData, plan, pc, env, hist, committed>>

MayOpenWhileOpen(w) ==
    /\ w.phase = "extracting"
    /\ w.attempt <= MaxAttempts(w.chain)

\* lines 219-224: the loop is at its next iteration, the attempt before it
\* (if any) has left its finally block, and the worker has not returned
MayOpen(w) ==
    /\ w.phase = "extracting"
    /\ w.socket = Null
    /\ w.attempt <= MaxAttempts(w.chain)

\* lines 219-235: the next attempt opens its connection
AttemptStarts ==
    /\ IsSet(inflight)
    /\ \E c \in DOMAIN Workers :
          LET w == Workers[c]
          IN  /\ MayOpen(w)
              /\ inflight' = Some([Val(inflight) EXCEPT
                     !.workers[c].socket = Some(AttemptUrl(HealthyRpcUrls(w.chain), w.attempt)),
                     !.workers[c].log = Append(@, AttemptUrl(HealthyRpcUrls(w.chain), w.attempt)),
                     !.event = Null])
    /\ UNCHANGED <<chains, evmNetworks, tokens, processorSharedData, plan, pc, env, hist, committed>>

AfterAttemptRetryingOnTeardownError(w, result, disconnect) ==
    IF result = "data" /\ disconnect = "ok"
    THEN [w EXCEPT !.socket = Null, !.closed = @ + 1, !.phase = "done", !.outcome = "extracted"]
    ELSE [w EXCEPT !.socket = Null, !.closed = @ + 1, !.attempt = @ + 1]

\* lines 339-349: the worker after an attempt.  The return of line 339 or the
\* catch of line 340 has decided what comes next before the finally block
\* runs; the disconnect is called, and what it throws is caught and logged
AfterAttempt(w, result, disconnect) ==
    IF result = "data"
    THEN [w EXCEPT !.socket = Null, !.closed = @ + 1, !.phase = "done", !.outcome = "extracted"]
    ELSE [w EXCEPT !.socket = Null, !.closed = @ + 1, !.attempt = @ + 1]

\* lines 340-349: the attempt failed (the connection, the request or the
\* decoding threw); the socket is closed and the loop goes on
AttemptFails ==
    /\ IsSet(inflight)
    /\ \E c \in DOMAIN Workers, disconnect \in DisconnectResults :
          /\ Workers[c].phase = "extracting"
          /\ IsSet(Workers[c].socket)
          /\ inflight' = Some([Val(inflight) EXCEPT
                 !.workers[c] = AfterAttempt(@, "failed", disconnect),
                 !.event = Some([chain |-> c, kind |-> "attempt", result |-> "failed",
                                 disconnect |-> disconnect])])
    /\ UNCHANGED <<chains, evmNetworks, tokens, processorSharedData, plan, pc, env, hist, committed>>

\* lines 238-339 and 342-349: the attempt got the data; the tokens and the
\* chain are written, the socket is closed and the worker returns
AttemptSucceeds(Bundles) ==
    /\ IsSet(inflight)
    /\ \E c \in DOMAIN Workers, data \in Bundles, disconnect \in DisconnectResults :
          /\ Workers[c].phase = "extracting"
          /\ IsSet(Workers[c].socket)
          /\ LET g == Extracted(Graph, c, data)
             IN  /\ chains' = g.chains
                 /\ tokens' = g.tokens
          /\ inflight' = Some([Val(inflight) EXCEPT
                 !.workers[c] = [AfterAttempt(@, "data", disconnect) EXCEPT !.data = Some(data)],
                 !.event = Some([chain |-> c, kind |-> "attempt", result |-> "data",
                                 disconnect |-> disconnect, data |-> data])])
    /\ UNCHANGED <<evmNetworks, processorSharedData, plan, pc, env, hist, committed>>

\* lines 352-356: the loop ended without a successful attempt
WorkerGivesUp ==
    /\ IsSet(inflight)
    /\ \E c \in DOMAIN Workers :
          LET w == Workers[c]
          IN  /\ w.phase = "extracting"
              /\ w.socket = Null
              /\ w.attempt > MaxAttempts(w.chain)
              /\ chains' = Exhausted(Graph, w.chain).chains
              /\ tokens' = Exhausted(Graph, w.chain).tokens
              /\ inflight' = Some([Val(inflight) EXCEPT
                     !.workers[c].phase = "done",
                     !.workers[c].chain = [w.chain EXCEPT !.isHealthy = FALSE],
                     !.workers[c].outcome = "exhausted",
                     !.event = Null])
    /\ UNCHANGED <<evmNetworks, processorSharedData, plan, pc, env, hist, committed>>

\* what the endpoints of a worker's chain answered: the probe of each rpc and
\* the data of the attempt that succeeded
WorkerOutcome(w) ==
    [health |-> [i \in DOMAIN w.chain.rpcs |-> w.chain.rpcs[i].isHealthy],
     result |-> w.data]

\* pMap resolves once every worker has returned
ChainDataDone ==
    /\ IsSet(inflight)
    /\ \A c \in DOMAIN Workers : Workers[c].phase = "done"
    /\ StepDone("updateChainData",
                Some([start |-> Val(inflight).start,
                      overlap |-> Val(inflight).overlap,
                      outcomes |-> [c \in DOMAIN Workers |-> WorkerOutcome(Workers[c])]]))
    /\ inflight' = Null
    /\ UNCHANGED <<chains, evmNetworks, tokens, processorSharedData, plan, env, committed>>

-----------------------------------------------------------------------------
(* Step 4: updateEvmNetworksFromGithub *)

\* an entity in memory: as stored, its id Null until one is known
Loaded(coll, id) == [coll[id] EXCEPT !.id = Some(id)]

\* new EvmNetwork()
NewEvmNetwork ==
    [id |-> Null, isTestnet |-> FALSE, name |-> Null, rpcs |-> <<>>, isHealthy |-> FALSE,
     substrateChain |-> Null, nativeToken |-> Null, sortIndex |-> Null]

\* lines 363-374: the partition of a stored entity and of a feed record
IsStandaloneEntity(e) == ~IsSet(e.substrateChain)
IsSubstrateEntity(e) == IsSet(e.substrateChain)
IsInvalidEntity(e) == ~IsStandaloneEntity(e) /\ ~IsSubstrateEntity(e)
IsStandaloneRecord(r) == ~IsSet(r.substrateChainId) /\ IsSet(r.name)
IsSubstrateRecord(r) == IsSet(r.substrateChainId)

\* the records of one partition, in feed order
Partition(feed, Test(_)) == SelectIdx(feed, [i \in DOMAIN feed |-> Test(feed[i])], 1)

\* store.findOne(EvmNetwork, { where: { name } })
FindByName(coll, name) ==
    LET hits == {i \in DOMAIN coll : coll[i].name = name}
    IN  IF hits = {} THEN NewEvmNetwork ELSE Loaded(coll, CHOOSE i \in hits : TRUE)

\* store.findOne(EvmNetwork, { where: { substrateChain: { id } } })
FindByChain(coll, chainId) ==
    LET hits == {i \in DOMAIN coll : coll[i].substrateChain = Some(chainId)}
    IN  IF hits = {} THEN NewEvmNetwork ELSE Loaded(coll, CHOOSE i \in hits : TRUE)

FreshRpcs(urls) == [i \in DOMAIN urls |-> NewRpc(urls[i])]

\* lines 387-403: the entity of a standalone record
StandaloneEntity(g, r) ==
    [FindByName(g.evmNetworks, r.name) EXCEPT
        !.isTestnet = IsSet(r.isTestnet) /\ Val(r.isTestnet),
        !.name = r.name,
        !.rpcs = FreshRpcs(r.rpcs),
        !.substrateChain = Null]

SubstrateEntityKeepingFlag(g, r) ==
    LET substrateChain == g.chains[Val(r.substrateChainId)]
    IN  [FindByChain(g.evmNetworks, Val(r.substrateChainId)) EXCEPT
            !.rpcs = FreshRpcs(r.rpcs),
            !.substrateChain = Some(substrateChain.id),
            !.isTestnet = IsSet(r.isTestnet) /\ Val(r.isTestnet),
            !.name = IF IsSet(r.name) THEN r.name ELSE substrateChain.name,
            !.nativeToken = substrateChain.nativeToken]

\* lines 407-431: the entity of a substrate-linked record whose chain is stored
SubstrateEntity(g, r) ==
    LET substrateChain == g.chains[Val(r.substrateChainId)]
    IN  [FindByChain(g.evmNetworks, Val(r.substrateChainId)) EXCEPT
            !.rpcs = FreshRpcs(r.rpcs),
            !.substrateChain = Some(substrateChain.id),
            !.isTestnet = substrateChain.isTestnet,
            !.name = IF IsSet(r.name) THEN r.name ELSE substrateChain.name,
            !.nativeToken = substrateChain.nativeToken]

\* line 425: records whose chain is not stored are dropped
LinkedRecords(g, feed) ==
    LET recs == Partition(feed, IsSubstrateRecord)
    IN  SelectIdx(recs, [i \in DOMAIN recs |-> Val(recs[i].substrateChainId) \in DOMAIN g.chains], 1)

\* [...standaloneEvmNetworks, ...substrateEvmNetworks]
EvmEntities(g, feed) ==
    LET st == Partition(feed, IsStandaloneRecord)
        su == LinkedRecords(g, feed)
    IN  [i \in DOMAIN st |-> StandaloneEntity(g, st[i])] \o
        [i \in DOMAIN su |-> SubstrateEntity(g, su[i])]

\* what an endpoint answers to eth_chainId: no usable response ("error": the
\* request throws or the status is not 200) or a payload
EvmResponses == {"error", "0x1", "1", "0x2", "zz"}

\* parseInt(response.data.result): NaN for a payload that is no number
ParseInt(payload) ==
    CASE payload = "0x1" -> Some(1)
      [] payload = "1" -> Some(1)
      [] payload = "0x2" -> Some(2)
      [] OTHER -> Null

\* lines 443-472: the id one probe returns, null when it failed
EthereumId(response) ==
    IF response = "error" \/ ~IsSet(ParseInt(response)) THEN Null
    ELSE Some(ToString(Val(ParseInt(response))))

\* ethereumIds.filter((id) => id !== null)
NonNull(ids) == SelectIdx(ids, [i \in DOMAIN ids |-> IsSet(ids[i])], 1)

\* line 479: the id of the first endpoint, in rpc order, that answered
CanonicalId(ethereumIds) == NonNull(ethereumIds)[1]

\* lines 465-471: an endpoint is healthy when its own probe returned an id
ProbedRpcs(rpcs, ethereumIds) ==
    [i \in DOMAIN rpcs |-> [rpcs[i] EXCEPT !.isHealthy = IsSet(ethereumIds[i])]]

AgreesWhenAnswered(ethereumId, id) == IsSet(ethereumId)

\* line 483: the test that spares an endpoint from being set unhealthy
Agrees(ethereumId, id) == ethereumId = id

\* lines 482-485: endpoints whose id is not the network's are unhealthy
ForcedUnhealthy(rpcs, ethereumIds, id) ==
    [i \in DOMAIN rpcs |->
        IF Agrees(ethereumIds[i], id) THEN rpcs[i] ELSE [rpcs[i] EXCEPT !.isHealthy = FALSE]]

ElectedHealthyWhenAllAre(e, ethereumIds) ==
    LET any  == Len(NonNull(ethereumIds)) > 0
        id   == IF any THEN CanonicalId(ethereumIds) ELSE e.id
        rpcs == IF any THEN ForcedUnhealthy(ProbedRpcs(e.rpcs, ethereumIds), ethereumIds, id)
                ELSE ProbedRpcs(e.rpcs, ethereumIds)
    IN  [e EXCEPT !.id = id, !.rpcs = rpcs,
                  !.isHealthy = \A i \in DOMAIN rpcs : rpcs[i].isHealthy]

\* lines 476-490: the id is elected, the health flags are settled
Elected(e, ethereumIds) ==
    LET any  == Len(NonNull(ethereumIds)) > 0
        id   == IF any THEN CanonicalId(ethereumIds) ELSE e.id
        rpcs == IF any THEN ForcedUnhealthy(ProbedRpcs(e.rpcs, ethereumIds), ethereumIds, id)
                ELSE ProbedRpcs(e.rpcs, ethereumIds)
    IN  [e EXCEPT !.id = id, !.rpcs = rpcs,
                  !.isHealthy = \E i \in DOMAIN rpcs : rpcs[i].isHealthy]

\* lines 497-511: the native token of a standalone network
GithubNetworkOf(feed, e) ==
    LET st == Partition(feed, IsStandaloneRecord)
        hits == {i \in DOMAIN st : st[i].name = e.name}
    IN  IF hits = {} THEN Null ELSE Some(st[CHOOSE i \in hits : \A j \in hits : i <= j])

NativeSymbol(feed, e) ==
    LET r == GithubNetworkOf(feed, e)
    IN  IF IsSet(r) /\ IsSet(Val(r).symbol) THEN Val(Val(r).symbol) ELSE "ETH"

ProvisionNative(coll, feed, e) ==
    LET token == GetOrCreateToken(coll, "NativeToken", nativeTokenId(Val(e.id), NativeSymbol(feed, e)))
    IN  SaveToken(coll, [token EXCEPT !.symbol = Some(NativeSymbol(feed, e)), !.decimals = Some(18)])

RECURSIVE EvmUpdates(_, _, _, _)
\* lines 437-516 for the entities from index i on: st.updates the entities to
\* save, st.affirmed the ids taken out of the two deletion maps, st.tokens
EvmUpdates(st, feed, elected, i) ==
    IF i > Len(elected) THEN st
    ELSE LET e == elected[i]
         IN  IF ~IsSet(e.id) THEN EvmUpdates(st, feed, elected, i + 1)
             ELSE LET standalone == IsStandaloneEntity(e)
                      tokens1 == IF standalone THEN ProvisionNative(st.tokens, feed, e) ELSE st.tokens
                      e1 == IF standalone
                            THEN [e EXCEPT !.nativeToken =
                                     Some(nativeTokenId(Val(e.id), NativeSymbol(feed, e)))]
                            ELSE e
                  IN  EvmUpdates(
                         [updates |-> Append(st.updates, e1),
                          standalone |-> st.standalone \cup (IF standalone THEN {Val(e.id)} ELSE {}),
                          substrate |-> st.substrate \cup (IF standalone THEN {} ELSE {Val(e.id)}),
                          tokens |-> tokens1],
                         feed, elected, i + 1)

RECURSIVE SaveAll(_, _, _)
\* store.save(evmNetworkUpdates)
SaveAll(coll, updates, i) ==
    IF i > Len(updates) THEN coll
    ELSE SaveAll(Save(coll, [updates[i] EXCEPT !.id = Val(updates[i].id)]), updates, i + 1)

DeletedEvmNetworkIdsNamedOnly(coll, st) ==
    {i \in DOMAIN coll : IsInvalidEntity(coll[i])}
    \cup ({i \in DOMAIN coll : IsStandaloneEntity(coll[i]) /\ IsSet(coll[i].name)} \ st.standalone)
    \cup ({i \in DOMAIN coll : IsSubstrateEntity(coll[i])} \ st.substrate)

\* lines 376-383 and 520-525: the ids deleted at the end of the step
DeletedEvmNetworkIds(coll, st) ==
    {i \in DOMAIN coll : IsInvalidEntity(coll[i])}
    \cup ({i \in DOMAIN coll : IsStandaloneEntity(coll[i])} \ st.standalone)
    \cup ({i \in DOMAIN coll : IsSubstrateEntity(coll[i])} \ st.substrate)

\* lines 476-525 once every probe has returned: ethereumIds[i] are the ids
\* Promise.all collected for entity i
EvmSynced(g, feed, entities, ethereumIds) ==
    LET elected == [i \in DOMAIN entities |-> Elected(entities[i], ethereumIds[i])]
        st == EvmUpdates([updates |-> <<>>, standalone |-> {}, substrate |-> {},
                          tokens |-> g.tokens], feed, elected, 1)
    IN  [g EXCEPT !.tokens = st.tokens,
                  !.evmNetworks = Delete(SaveAll(g.evmNetworks, st.updates, 1),
                                         DeletedEvmNetworkIds(g.evmNetworks, st))]

\* the ids elected in one run by different entities differ (a batched save of
\* two entities under one id is left out)
DistinctIds(entities, ethereumIds) ==
    \A i, j \in DOMAIN entities :
        LET a == Elected(entities[i], ethereumIds[i]).id
            b == Elected(entities[j], ethereumIds[j]).id
        IN  i # j /\ IsSet(a) => a # b

EthereumIds(responses) ==
    [i \in DOMAIN responses |-> [k \in DOMAIN responses[i] |-> EthereumId(responses[i][k])]]

\* the step with every probe answered at once
UpdateEvmNetworksFromGithub(Responses) ==
    /\ AtStep("updateEvmNetworksFromGithub")
    /\ LET feed == processorSharedData.githubEvmNetworks
           entities == EvmEntities(Graph, feed)
       IN  \E responses \in [DOMAIN entities -> SeqsUpTo(Responses, MaxRpcs)] :
              /\ \A i \in DOMAIN entities : Len(responses[i]) = Len(entities[i].rpcs)
              /\ DistinctIds(entities, EthereumIds(responses))
              /\ LET g == EvmSynced(Graph, feed, entities, EthereumIds(responses))
                 IN  /\ evmNetworks' = g.evmNetworks
                     /\ tokens' = g.tokens
              /\ Replayable(responses, env.evm)
              /\ env' = Recorded("evm", responses)
              /\ StepDone("updateEvmNetworksFromGithub", Null)
    /\ UNCHANGED <<chains, processorSharedData, plan, inflight, committed>>

(* The same step with its probes in flight: every endpoint of every entity   *)
(* is asked at once (the nested Promise.all of lines 438-441) and the        *)
(* answers come back in any order.                                           *)

\* lines 437-441: the requests are sent
EvmProbesSent ==
    /\ AtStep("updateEvmNetworksFromGithub")
    /\ inflight = Null
    /\ LET entities == EvmEntities(Graph, processorSharedData.githubEvmNetworks)
       IN  inflight' = Some([entities |-> entities,
                             pending |-> [i \in DOMAIN entities |-> DOMAIN entities[i].rpcs],
                             ethereumIds |-> [i \in DOMAIN entities |->
                                                [k \in DOMAIN entities[i].rpcs |-> Null]],
                             responses |-> [i \in DOMAIN entities |->
                                               [k \in DOMAIN entities[i].rpcs |-> "pending"]],
                             order |-> [i \in DOMAIN entities |-> <<>>]])
    /\ UNCHANGED <<chains, evmNetworks, tokens, processorSharedData, plan, pc, env, hist, committed>>

\* Promise.all: the value of the k-th promise is the k-th element of the
\* result, whenever it resolves (done: how many resolved before it)
SettledInArrivalOrder(ethereumIds, k, done, id) == [ethereumIds EXCEPT ![done + 1] = id]

Settled(ethereumIds, k, done, id) == [ethereumIds EXCEPT ![k] = id]

\* lines 443-472: one probe returns
EvmProbeReturns(Responses) ==
    /\ IsSet(inflight)
    /\ \E i \in DOMAIN Val(inflight).entities :
          \E k \in Val(inflight).pending[i], response \in Responses :
             LET f == Val(inflight)
             IN  inflight' = Some([f EXCEPT
                     !.pending[i] = @ \ {k},
                     !.ethereumIds[i] = Settled(@, k, Len(f.order[i]), EthereumId(response)),
                     !.responses[i][k] = response,
                     !.order[i] = Append(@, k)])
    /\ UNCHANGED <<chains, evmNetworks, tokens, processorSharedData, plan, pc, env, hist, committed>>

\* lines 476-525: every probe has returned
EvmProbesDone ==
    /\ IsSet(inflight)
    /\ LET f == Val(inflight)
       IN  /\ \A i \in DOMAIN f.entities : f.pending[i] = {}
           /\ DistinctIds(f.entities, f.ethereumIds)
           /\ LET g == EvmSynced(Graph, processorSharedData.githubEvmNetworks,
                                 f.entities, f.ethereumIds)
              IN  /\ evmNetworks' = g.evmNetworks
                  /\ tokens' = g.tokens
           /\ StepDone("updateEvmNetworksFromGithub",
                       Some([responses |-> f.responses, order |-> f.order,
                             names |-> [i \in DOMAIN f.entities |-> f.entities[i].name],
                             entities |-> f.entities, stored |-> evmNetworks]))
    /\ inflight' = Null
    /\ UNCHANGED <<chains, processorSharedData, plan, env, committed>>

-----------------------------------------------------------------------------
(* Step 5: updateSortIndexes *)

\* helpers.sortChainsAndNetworks: a total order over chains and networks
sortOrder == <<"c1", "c2", "c3", "1", "2">>

SortRank(id) == CHOOSE i \in DOMAIN sortOrder : sortOrder[i] = id

\* the position of an entity among the stored chains and networks
SortIndex(g, id) ==
    1 + Cardinality({x \in DOMAIN g.chains \cup DOMAIN g.evmNetworks : SortRank(x) < SortRank(id)})

Sorted(g) ==
    [g EXCEPT
        !.chains = [c \in DOMAIN g.chains |-> [g.chains[c] EXCEPT !.sortIndex = Some(SortIndex(g, c))]],
        !.evmNetworks = [n \in DOMAIN g.evmNetworks |->
                            [g.evmNetworks[n] EXCEPT !.sortIndex = Some(SortIndex(g, n))]]]

UpdateSortIndexes ==
    /\ AtStep("updateSortIndexes")
    /\ chains' = Sorted(Graph).chains
    /\ evmNetworks' = Sorted(Graph).evmNetworks
    /\ StepDone("updateSortIndexes", Null)
    /\ UNCHANGED <<tokens, processorSharedData, plan, inflight, env, committed>>

-----------------------------------------------------------------------------
(* Step 6: updateTokensFromGithub *)

\* a tokens.json record that renames a token or gives it a coingeckoId
RenameRecord(id, symbol, coingeckoId) ==
    [id |-> Some(id), symbol |-> symbol, coingeckoId |-> coingeckoId,
     contractAddress |-> Null, evmNetworkId |-> Null, decimals |-> Null]

\* a tokens.json record of a preconfigured erc20 token
Erc20Record(evmNetworkId, contractAddress, symbol, coingeckoId) ==
    [id |-> Null, symbol |-> symbol, coingeckoId |-> coingeckoId,
     contractAddress |-> contractAddress, evmNetworkId |-> evmNetworkId, decimals |-> Some(18)]

IsRenameOrCoingeckoId(r) == IsSet(r.id) /\ (IsSet(r.coingeckoId) \/ IsSet(r.symbol))
IsErc20(r) == IsSet(r.contractAddress) /\ IsSet(r.evmNetworkId)

RECURSIVE Renamed(_, _, _)
\* lines 544-556
Renamed(coll, recs, i) ==
    IF i > Len(recs) THEN coll
    ELSE LET r == recs[i]
         IN  IF Val(r.id) \notin DOMAIN coll THEN Renamed(coll, recs, i + 1)
             ELSE LET token == coll[Val(r.id)]
                  IN  Renamed(SaveToken(coll,
                                 [token EXCEPT
                                     !.symbol = IF IsSet(r.symbol) THEN r.symbol ELSE @,
                                     !.coingeckoId = IF IsSet(r.coingeckoId) THEN r.coingeckoId ELSE @]),
                              recs, i + 1)

\* erc20.evmNetworkId?.toString()
NetworkIdOf(r) == ToString(Val(r.evmNetworkId))

ResolvedErc20Unchecked(g, feed) == Partition(feed, IsErc20)

\* line 571: erc20 records whose network is stored
ResolvedErc20(g, feed) ==
    LET recs == Partition(feed, IsErc20)
    IN  SelectIdx(recs, [i \in DOMAIN recs |-> NetworkIdOf(recs[i]) \in DOMAIN g.evmNetworks], 1)

RECURSIVE UpsertErc20(_, _, _)
\* lines 566-586
UpsertErc20(coll, recs, i) ==
    IF i > Len(recs) THEN coll
    ELSE LET r == recs[i]
             token == GetOrCreateToken(coll, "Erc20Token",
                                       erc20TokenId(NetworkIdOf(r), Val(r.contractAddress)))
         IN  UpsertErc20(SaveToken(coll, [token EXCEPT !.symbol = r.symbol,
                                                       !.decimals = r.decimals,
                                                       !.coingeckoId = r.coingeckoId,
                                                       !.evmNetwork = Some(NetworkIdOf(r))]),
                         recs, i + 1)

\* lines 561-564 and 588-590: the erc20 tokens no record re-affirmed
DeletedErc20(coll, recs) ==
    {t \in DOMAIN coll : coll[t].isTypeOf = "Erc20Token"} \
        {erc20TokenId(NetworkIdOf(recs[i]), Val(recs[i].contractAddress)) : i \in DOMAIN recs}

TokensSynced(g, feed) ==
    LET tokens1 == Renamed(g.tokens, Partition(feed, IsRenameOrCoingeckoId), 1)
        recs == ResolvedErc20(g, feed)
    IN  Delete(UpsertErc20(tokens1, recs, 1), DeletedErc20(tokens1, recs))

UpdateTokensFromGithub ==
    /\ AtStep("updateTokensFromGithub")
    /\ tokens' = TokensSynced(Graph, processorSharedData.githubTokens)
    /\ StepDone("updateTokensFromGithub", Null)
    /\ UNCHANGED <<chains, evmNetworks, processorSharedData, plan, inflight, env, committed>>

-----------------------------------------------------------------------------
(* Step 7: updateTokensTestnetField *)

\* token.squidImplementationDetailChain and ...NativeToChains
ChainsOfToken(g, t) ==
    (IF IsSet(g.tokens[t].chain) THEN {Val(g.tokens[t].chain)} ELSE {})
    \cup {c \in DOMAIN g.chains : g.chains[c].nativeToken = Some(t)}

\* token.squidImplementationDetailEvmNetwork and ...NativeToEvmNetworks
EvmNetworksOfToken(g, t) ==
    (IF IsSet(g.tokens[t].evmNetwork) THEN {Val(g.tokens[t].evmNetwork)} ELSE {})
    \cup {n \in DOMAIN g.evmNetworks : g.evmNetworks[n].nativeToken = Some(t)}

IsTestnetTokenByAnchor(g, t) ==
    /\ \A c \in DOMAIN g.chains : g.tokens[t].chain = Some(c) => g.chains[c].isTestnet
    /\ \A n \in DOMAIN g.evmNetworks : g.tokens[t].evmNetwork = Some(n) => g.evmNetworks[n].isTestnet

\* lines 604-615: every stored chain and network of the token is a testnet
IsTestnetToken(g, t) ==
    /\ \A c \in ChainsOfToken(g, t) \cap DOMAIN g.chains : g.chains[c].isTestnet
    /\ \A n \in EvmNetworksOfToken(g, t) \cap DOMAIN g.evmNetworks : g.evmNetworks[n].isTestnet

TestnetFieldsSet(g) ==
    [t \in DOMAIN g.tokens |-> [g.tokens[t] EXCEPT !.isTestnet = IsTestnetToken(g, t)]]

UpdateTokensTestnetField ==
    /\ AtStep("updateTokensTestnetField")
    /\ tokens' = TestnetFieldsSet(Graph)
    /\ StepDone("updateTokensTestnetField", Null)
    /\ UNCHANGED <<chains, evmNetworks, processorSharedData, plan, inflight, env, committed>>

-----------------------------------------------------------------------------
(* Step 8: updateTokenRates *)

coingeckoCurrencies == <<"usd", "eur">>

\* lines 630-637: the ids the quote request asks for
CoingeckoIds(coll) ==
    {Val(coll[t].coingeckoId) : t \in {x \in DOMAIN coll : ~coll[x].isTestnet /\ IsSet(coll[x].coingeckoId)}}

\* new TokenRates() filled from the response
RatesOf(quote) == [c \in Range(coingeckoCurrencies) |-> quote[c]]

RatedKeepingStale(coll, coingeckoPrices) ==
    [t \in DOMAIN coll |->
        [coll[t] EXCEPT !.rates =
            IF coll[t].isTestnet \/ ~IsSet(coll[t].coingeckoId) THEN Null
            ELSE IF Val(coll[t].coingeckoId) \notin DOMAIN coingeckoPrices THEN coll[t].rates
            ELSE Some(RatesOf(coingeckoPrices[Val(coll[t].coingeckoId)]))]]

\* lines 645-659
Rated(coll, coingeckoPrices) ==
    [t \in DOMAIN coll |->
        [coll[t] EXCEPT !.rates =
            IF coll[t].isTestnet \/ ~IsSet(coll[t].coingeckoId) THEN Null
            ELSE IF Val(coll[t].coingeckoId) \notin DOMAIN coingeckoPrices THEN Null
            ELSE Some(RatesOf(coingeckoPrices[Val(coll[t].coingeckoId)]))]]

\* the responses of the price feed: quotes for some of the ids asked for
PriceResponses(ids, Quotes) == UNION {[answered -> Quotes] : answered \in SUBSET ids}

UpdateTokenRates(Quotes) ==
    /\ AtStep("updateTokenRates")
    /\ \E coingeckoPrices \in PriceResponses(CoingeckoIds(tokens), Quotes) :
          /\ tokens' = Rated(tokens, coingeckoPrices)
          /\ Replayable(coingeckoPrices, env.prices)
          /\ env' = Recorded("prices", coingeckoPrices)
          /\ StepDone("updateTokenRates", Some([coingeckoPrices |-> coingeckoPrices, tokens |-> tokens]))
    /\ UNCHANGED <<chains, evmNetworks, processorSharedData, plan, inflight, committed>>

-----------------------------------------------------------------------------
(* Initial state: an empty store, nothing fetched yet *)

InitStore(steps) ==
    /\ chains = <<>>
    /\ evmNetworks = <<>>
    /\ tokens = <<>>
    /\ processorSharedData =
           [githubChains |-> <<>>, githubEvmNetworks |-> <<>>, githubTokens |-> <<>>]
    /\ plan = steps
    /\ pc = 0
    /\ inflight = Null
    /\ env = NoInputs
    /\ hist = [lastStep |-> "none", mode |-> "free", before |-> Null, prevGraph |-> Null,
               block |-> Null]

InitWith(steps) == InitStore(steps) /\ committed = Null

-----------------------------------------------------------------------------
(* A step that throws: nothing in the hook catches, the rejection leaves   *)
(* the hook and the processor rolls the block's transaction back           *)

RolledBackNot(g) == g

\* the store after the rollback
RolledBack(g) == Val(committed)

Aborted(name) ==
    /\ IsSet(committed)
    /\ chains' = RolledBack(Graph).chains
    /\ evmNetworks' = RolledBack(Graph).evmNetworks
    /\ tokens' = RolledBack(Graph).tokens
    /\ pc' = 0
    /\ hist' = [hist EXCEPT !.lastStep = "aborted",
                            !.before = Some([step |-> name, graph |-> Graph,
                                             shared |-> processorSharedData])]
    /\ UNCHANGED <<processorSharedData, plan, inflight, env, committed>>

\* lines 113-125: one of the four axios.get rejects, Promise.all rejects and
\* the assignments of lines 127-129 are not reached
FetchDataFromGithubFails ==
    /\ AtStep("fetchDataFromGithub")
    /\ Aborted("fetchDataFromGithub")

\* lines 641-643: the price request rejects before any token is touched
UpdateTokenRatesFails ==
    /\ AtStep("updateTokenRates")
    /\ Aborted("updateTokenRates")

-----------------------------------------------------------------------------
(* The chain roster alone: the hook runs the fetch and the chain sync *)

ChainRec(id, relay, paraId) ==
    [id |-> id, isTestnet |-> Null, name |-> Some("A"), rpcs |-> RpcList(1),
     relay |-> relay, paraId |-> paraId]

RosterRecords ==
    {ChainRec("c1", Null, Null),
     ChainRec("c2", Null, Null),
     ChainRec("c2", Some("c1"), Some(7)),
     ChainRec("c2", Some("c1"), Null),
     ChainRec("c2", Some("c1"), Some(0)),
     ChainRec("c2", Null, Some(7)),
     ChainRec("c1", Some("c2"), Some(7)),
     ChainRec("c1", Some("c1"), Some(7))}

RosterDocs == SeqsUpTo(RosterRecords, MaxChainFeed)
RosterTestnetDocs == SeqsUpTo({ChainRec("c1", Null, Null)}, 1)

InitRoster == InitWith(<<"fetchDataFromGithub", "updateChainsFromGithub">>)

NextRoster ==
    \/ PostHook(FALSE)
    \/ FetchDataFromGithub(RosterDocs, RosterTestnetDocs, {<<>>}, {<<>>})
    \/ UpdateChainsFromGithub

SpecRoster == InitRoster /\ [][NextRoster]_vars

-----------------------------------------------------------------------------
(* The whole pipeline: the hook runs processorSteps *)

\* what a chain's endpoint returns to the batched request of an attempt
Bundle(symbols, variants, isArray, specVersion) ==
    [tokenSymbol |-> symbols, tokenDecimals |-> [i \in DOMAIN symbols |-> 12],
     isArray |-> isArray, tokensCurrencyIdIndex |-> Some(0),
     tokenSymbolVariants |-> variants, specVersion |-> specVersion]

PipeChainRecords ==
    {ChainRec("c1", Null, Null), ChainRec("c2", Some("c1"), Some(7))}
PipeChainDocs == SeqsUpTo(PipeChainRecords, MaxChainFeed)
PipeTestnetDocs == SeqsUpTo({ChainRec("c1", Null, Null)}, 1)

EvmRec(name, chainId, n) ==
    [name |-> name, substrateChainId |-> chainId, isTestnet |-> Null,
     rpcs |-> RpcList(n), symbol |-> Null]

PipeEvmDocs == {<<>>, <<EvmRec(Some("eth"), Null, 1)>>}

PipeTokenDocs ==
    {<<>>, <<RenameRecord(nativeTokenId("c1", "DOT"), Null, Some("polkadot"))>>}

PipeBundles == {Bundle(<<"DOT">>, <<>>, TRUE, 1)}

PipeResponses == {"error", "0x1"}

PipeQuotes == {[usd |-> 1, eur |-> 1]}

Init == InitWith(processorSteps)

Next ==
    \/ PostHook(FALSE)
    \/ FetchDataFromGithub(PipeChainDocs, PipeTestnetDocs, PipeEvmDocs, PipeTokenDocs)
    \/ UpdateChainsFromGithub
    \/ UpdateChainData(PipeBundles)
    \/ UpdateEvmNetworksFromGithub(PipeResponses)
    \/ UpdateSortIndexes
    \/ UpdateTokensFromGithub
    \/ UpdateTokensTestnetField
    \/ UpdateTokenRates(PipeQuotes)

Spec == Init /\ [][Next]_vars

\* the same pipeline, observed over two runs in succession with the same inputs
NextTwice ==
    \/ PostHook(TRUE)
    \/ FetchDataFromGithub(PipeChainDocs, PipeTestnetDocs, PipeEvmDocs, PipeTokenDocs)
    \/ UpdateChainsFromGithub
    \/ UpdateChainData(PipeBundles)
    \/ UpdateEvmNetworksFromGithub(PipeResponses)
    \/ UpdateSortIndexes
    \/ UpdateTokensFromGithub
    \/ UpdateTokensTestnetField
    \/ UpdateTokenRates(PipeQuotes)

SpecTwice == Init /\ [][NextTwice]_vars

-----------------------------------------------------------------------------
(* The EVM network sync with its probes in flight *)

ProbeEvmDocs == {<<>>} \cup {<<EvmRec(Some("eth"), Null, n)>> : n \in 1..MaxRpcs}

InitEvmProbe == InitWith(<<"fetchDataFromGithub", "updateEvmNetworksFromGithub">>)

NextEvmProbe ==
    \/ PostHook(FALSE)
    \/ FetchDataFromGithub({<<>>}, {<<>>}, ProbeEvmDocs, {<<>>})
    \/ EvmProbesSent
    \/ EvmProbeReturns(EvmResponses)
    \/ EvmProbesDone

SpecEvmProbe == InitEvmProbe /\ [][NextEvmProbe]_vars

-----------------------------------------------------------------------------
(* The chain data step with its workers running *)

MaxChainRpcs == 3     \* endpoints of a chain in the chain data step

WorkerChainRec(id, n) ==
    [id |-> id, isTestnet |-> Null, name |-> Some("A"), rpcs |-> RpcList(n),
     relay |-> Null, paraId |-> Null]

WorkerChainDocs ==
    {<<>>} \cup {<<WorkerChainRec("c1", n)>> : n \in 0..MaxChainRpcs}
           \cup {<<WorkerChainRec("c1", 1), WorkerChainRec("c2", 1)>>}

WorkerBundles ==
    {Bundle(<<"DOT">>, <<>>, TRUE, 1),
     Bundle(<<"ACA", "AUSD">>, <<[name |-> "AUSD", index |-> 1]>>, TRUE, 1)}

InitWorkers ==
    InitWith(<<"fetchDataFromGithub", "updateChainsFromGithub", "updateChainData">>)

NextWorkers ==
    \/ PostHook(FALSE)
    \/ FetchDataFromGithub(WorkerChainDocs, {<<>>}, {<<>>}, {<<>>})
    \/ UpdateChainsFromGithub
    \/ ChainDataStarted
    \/ WorkerStarts
    \/ WorkerProbed
    \/ AttemptStarts
    \/ AttemptFails
    \/ AttemptSucceeds(WorkerBundles)
    \/ WorkerGivesUp
    \/ ChainDataDone

SpecWorkers == InitWorkers /\ [][NextWorkers]_vars

-----------------------------------------------------------------------------
(* The chain data step of chains whose endpoints report a symbol list with  *)
(* and without storage keys, or a single symbol                             *)

OrmlChainDocs ==
    {<<>>, <<WorkerChainRec("c1", 1)>>, <<WorkerChainRec("c1", 1), WorkerChainRec("c2", 1)>>}

OrmlBundles ==
    {Bundle(<<"ACA", "AUSD">>, <<[name |-> "AUSD", index |-> 1]>>, TRUE, 1),
     Bundle(<<"KAR">>, <<[name |-> "KAR", index |-> 0]>>, FALSE, 1)}

NextOrml ==
    \/ PostHook(FALSE)
    \/ FetchDataFromGithub(OrmlChainDocs, {<<>>}, {<<>>}, {<<>>})
    \/ UpdateChainsFromGithub
    \/ ChainDataStarted
    \/ WorkerStarts
    \/ WorkerProbed
    \/ AttemptStarts
    \/ AttemptFails
    \/ AttemptSucceeds(OrmlBundles)
    \/ WorkerGivesUp
    \/ ChainDataDone

SpecOrml == InitWorkers /\ [][NextOrml]_vars

-----------------------------------------------------------------------------
(* The two probing steps: the chain workers, then the EVM networks *)

HealthChainDocs == {<<>>, <<WorkerChainRec("c1", 1)>>}

HealthEvmDocs == {<<>>, <<EvmRec(Some("eth"), Null, 2)>>}

HealthResponses == {"error", "0x1", "0x2"}

InitHealth == InitWith(SubSeq(processorSteps, 1, 4))

NextHealth ==
    \/ PostHook(FALSE)
    \/ FetchDataFromGithub(HealthChainDocs, {<<>>}, HealthEvmDocs, {<<>>})
    \/ UpdateChainsFromGithub
    \/ ChainDataStarted
    \/ WorkerStarts
    \/ WorkerProbed
    \/ AttemptStarts
    \/ AttemptFails
    \/ AttemptSucceeds(PipeBundles)
    \/ WorkerGivesUp
    \/ ChainDataDone
    \/ UpdateEvmNetworksFromGithub(HealthResponses)

SpecHealth == InitHealth /\ [][NextHealth]_vars

-----------------------------------------------------------------------------
(* The run up to the testnet flags, with a chain and a network that elect *)
(* the same id and so share their native token                            *)

TestnetChainDocs == {<<>>, <<ChainRec("1", Null, Null)>>, <<ChainRec("c1", Null, Null)>>}

TestnetEvmDocs ==
    {<<>>,
     <<EvmRec(Some("eth"), Null, 1)>>,
     <<EvmRec(Null, Some("c1"), 1)>>}

TestnetTestnetDocs == {<<>>, <<ChainRec("1", Null, Null)>>}

TestnetBundles == {Bundle(<<"ETH">>, <<>>, TRUE, 1)}

InitTestnet == InitWith(SubSeq(processorSteps, 1, 7))

NextTestnet ==
    \/ PostHook(FALSE)
    \/ FetchDataFromGithub(TestnetChainDocs, TestnetTestnetDocs, TestnetEvmDocs, {<<>>})
    \/ UpdateChainsFromGithub
    \/ UpdateChainData(TestnetBundles)
    \/ UpdateEvmNetworksFromGithub(PipeResponses)
    \/ UpdateSortIndexes
    \/ UpdateTokensFromGithub
    \/ UpdateTokensTestnetField

SpecTestnet == InitTestnet /\ [][NextTestnet]_vars

-----------------------------------------------------------------------------
(* The EVM network sync next to the chain roster: a record may be          *)
(* standalone in one run and linked to a chain in the next                 *)

LinkChainDocs == {<<>>, <<WorkerChainRec("c1", 0)>>}

LinkEvmDocs ==
    {<<>>,
     <<EvmRec(Some("eth"), Null, 1)>>,
     <<EvmRec(Null, Some("c1"), 1)>>,
     <<EvmRec(Some("moon"), Some("c1"), 1)>>}

LinkResponses == {"error", "0x1", "0x2"}

InitEvmLink == InitWith(SubSeq(processorSteps, 1, 4))

NextEvmLink ==
    \/ PostHook(FALSE)
    \/ FetchDataFromGithub(LinkChainDocs, LinkChainDocs, LinkEvmDocs, {<<>>})
    \/ UpdateChainsFromGithub
    \/ UpdateChainData(PipeBundles)
    \/ EvmProbesSent
    \/ EvmProbeReturns(LinkResponses)
    \/ EvmProbesDone

SpecEvmLink == InitEvmLink /\ [][NextEvmLink]_vars

-----------------------------------------------------------------------------
(* The run up to the token sync, with preconfigured erc20 tokens on networks *)
(* that come and go                                                        *)

Erc20EvmDocs == {<<>>, <<EvmRec(Some("eth"), Null, 1)>>}

Erc20TokenDocs ==
    {<<>>,
     <<Erc20Record(Some(1), Some("0xa"), Some("USDC"), Null)>>,
     <<Erc20Record(Some(1), Some("0xa"), Some("USDC"), Null),
       Erc20Record(Some(2), Some("0xb"), Some("DAI"), Null)>>,
     <<Erc20Record(Some(1), Some("0xb"), Some("DAI"), Null),
       Erc20Record(Null, Some("0xc"), Some("WETH"), Null)>>}

InitErc20 == InitStore(SubSeq(processorSteps, 1, 6)) /\ committed = Some(Graph)

NextErc20 ==
    \/ PostHook(FALSE)
    \/ FetchDataFromGithub({<<>>}, {<<>>}, Erc20EvmDocs, Erc20TokenDocs)
    \/ UpdateChainsFromGithub
    \/ UpdateChainData(PipeBundles)
    \/ UpdateEvmNetworksFromGithub(LinkResponses)
    \/ UpdateSortIndexes
    \/ UpdateTokensFromGithub

SpecErc20 == InitErc20 /\ [][NextErc20]_vars

-----------------------------------------------------------------------------
(* The EVM step on a database that holds, when the processor is started, an *)
(* EvmNetwork with neither a name nor a chain                               *)

LegacyEvmNetworks == [n \in {"1"} |-> [NewEvmNetwork EXCEPT !.id = n]]

InitLegacy ==
    /\ chains = <<>>
    /\ evmNetworks = LegacyEvmNetworks
    /\ tokens = <<>>
    /\ processorSharedData =
           [githubChains |-> <<>>, githubEvmNetworks |-> <<>>, githubTokens |-> <<>>]
    /\ plan = SubSeq(processorSteps, 1, 4)
    /\ pc = 0
    /\ inflight = Null
    /\ env = NoInputs
    /\ hist = [lastStep |-> "none", mode |-> "free", before |-> Null, prevGraph |-> Null,
               block |-> Null]
    /\ committed = Some(Graph)

NextLegacy ==
    \/ PostHook(FALSE)
    \/ FetchDataFromGithub(LinkChainDocs, {<<>>}, LinkEvmDocs, {<<>>})
    \/ UpdateChainsFromGithub
    \/ UpdateChainData(PipeBundles)
    \/ UpdateEvmNetworksFromGithub(LinkResponses)

SpecLegacy == InitLegacy /\ [][NextLegacy]_vars

-----------------------------------------------------------------------------
(* The EVM step with a standalone and a linked network persisted side by   *)
(* side, whose endpoints may answer another id in a later run              *)

RekeyEvmDocs ==
    {<<>>,
     <<EvmRec(Some("eth"), Null, 1)>>,
     <<EvmRec(Some("eth"), Null, 1), EvmRec(Null, Some("c1"), 1)>>}

NextRekey ==
    \/ PostHook(FALSE)
    \/ FetchDataFromGithub({<<WorkerChainRec("c1", 0)>>}, {<<>>}, RekeyEvmDocs, {<<>>})
    \/ UpdateChainsFromGithub
    \/ UpdateChainData(PipeBundles)
    \/ EvmProbesSent
    \/ EvmProbeReturns(LinkResponses)
    \/ EvmProbesDone

SpecRekey == InitEvmLink /\ [][NextRekey]_vars

-----------------------------------------------------------------------------
(* The pipeline with fetches that can fail *)

AbortChainDocs == {<<>>, <<ChainRec("c1", Null, Null)>>}

InitAbort == InitStore(processorSteps) /\ committed = Some(Graph)

NextAbort ==
    \/ PostHook(FALSE)
    \/ FetchDataFromGithub(AbortChainDocs, {<<>>}, PipeEvmDocs, PipeTokenDocs)
    \/ FetchDataFromGithubFails
    \/ UpdateChainsFromGithub
    \/ UpdateChainData(PipeBundles)
    \/ UpdateEvmNetworksFromGithub(PipeResponses)
    \/ UpdateSortIndexes
    \/ UpdateTokensFromGithub
    \/ UpdateTokensTestnetField
    \/ UpdateTokenRates(PipeQuotes)
    \/ UpdateTokenRatesFails

SpecAbort == InitAbort /\ [][NextAbort]_vars

-----------------------------------------------------------------------------
(* Claims *)

FeedIds == {processorSharedData.githubChains[i].id : i \in DOMAIN processorSharedData.githubChains}

\* C1: every persisted Chain has relay set if and only if paraId is set
C1_ParachainInvariant ==
    \A c \in DOMAIN chains : IsSet(chains[c].relay) <=> IsSet(chains[c].paraId)

\* C1 witness: the chain sync has wired a parachain whose relay was unresolved
\* (both cleared) next to one whose relay was found (both set)
C1_Witness ==
    /\ hist.lastStep = "updateChainsFromGithub"
    /\ \E i \in DOMAIN processorSharedData.githubChains :
          LET g == processorSharedData.githubChains[i]
          IN  /\ IsSet(g.relay) /\ Truthy(g.paraId)
              /\ g.id \in DOMAIN chains
              /\ chains[g.id].relay = Null /\ chains[g.id].paraId = Null
    /\ \E c \in DOMAIN chains : IsSet(chains[c].relay) /\ IsSet(chains[c].paraId)

\* C2: after updateChainsFromGithub the persisted Chain ids are exactly the
\* ids of the incoming chain records
C2_ChainIdsAreFeedIds ==
    hist.lastStep = "updateChainsFromGithub" => DOMAIN chains = FeedIds

\* C2 witness: the step created a chain and deleted a previously persisted one
C2_Witness ==
    /\ hist.lastStep = "updateChainsFromGithub"
    /\ Val(hist.before) \ DOMAIN chains # {}
    /\ DOMAIN chains \ Val(hist.before) # {}

\* C5: after updateChainsFromGithub every relay reference of a persisted
\* Chain names a Chain that is still persisted
C5_RelayIsPersisted ==
    hist.lastStep = "updateChainsFromGithub" =>
        \A c \in DOMAIN chains :
            IsSet(chains[c].relay) => Val(chains[c].relay) \in DOMAIN chains

RunComplete == pc = 0 /\ hist.lastStep = "updateTokenRates"

\* the entity a token is anchored to: the Chain or EvmNetwork its id was
\* derived from (NativeToken), its chain (OrmlToken), its network (Erc20Token)
AnchorPersisted(t) ==
    CASE tokens[t].isTypeOf = "OrmlToken" -> Val(tokens[t].chain) \in DOMAIN chains
      [] tokens[t].isTypeOf = "Erc20Token" -> Val(tokens[t].evmNetwork) \in DOMAIN evmNetworks
      [] OTHER -> t[1] \in DOMAIN chains \cup DOMAIN evmNetworks

\* C3: after a complete pipeline run the anchor of every persisted Token is a
\* persisted entity
C3_TokensAnchored == RunComplete => \A t \in DOMAIN tokens : AnchorPersisted(t)

\* C4: a second run with the same feeds, endpoint answers and quotes leaves
\* the graph the first run left
C4_Idempotent ==
    RunComplete /\ hist.mode = "replay" => Graph = Val(hist.prevGraph)

EvmStepDone == hist.lastStep = "updateEvmNetworksFromGithub" /\ IsSet(hist.before)

\* the stored network of the i-th entity of the step just done, by its name
NetworkNamed(name) == {n \in DOMAIN evmNetworks : evmNetworks[n].name = name}

\* the probes of entity i that returned a valid id
Answered(i) ==
    {k \in DOMAIN Val(hist.before).responses[i] :
        IsSet(EthereumId(Val(hist.before).responses[i][k]))}

\* C6: when some probe of a network returned an id, an endpoint of the saved
\* network is healthy only if its own probe returned the network's id; one
\* that returned another id or none is unhealthy
C6_DisagreeingEndpointsUnhealthy ==
    EvmStepDone =>
        \A i \in DOMAIN Val(hist.before).names :
            Answered(i) # {} =>
                \A n \in NetworkNamed(Val(hist.before).names[i]) :
                    \A k \in DOMAIN evmNetworks[n].rpcs :
                        evmNetworks[n].rpcs[k].isHealthy =>
                            EthereumId(Val(hist.before).responses[i][k]) = Some(n)

\* C6 witness: an endpoint answered a valid id that is not the network's and
\* is unhealthy, next to a healthy endpoint
C6_Witness ==
    /\ EvmStepDone
    /\ \E n \in DOMAIN evmNetworks :
          \E i \in DOMAIN Val(hist.before).names :
             /\ Val(hist.before).names[i] = evmNetworks[n].name
             /\ \E k, m \in DOMAIN evmNetworks[n].rpcs :
                   /\ IsSet(EthereumId(Val(hist.before).responses[i][k]))
                   /\ EthereumId(Val(hist.before).responses[i][k]) # Some(n)
                   /\ ~evmNetworks[n].rpcs[k].isHealthy
                   /\ evmNetworks[n].rpcs[m].isHealthy

\* C7: the id a network is saved under is the id returned by its
\* lowest-indexed endpoint that answered, whatever the order of the answers
C7_CanonicalIdIsFirstInRpcOrder ==
    EvmStepDone =>
        \A i \in DOMAIN Val(hist.before).names :
            Answered(i) # {} =>
                LET first == CHOOSE k \in Answered(i) : \A m \in Answered(i) : k <= m
                    id == Val(EthereumId(Val(hist.before).responses[i][first]))
                IN  /\ id \in DOMAIN evmNetworks
                    /\ evmNetworks[id].name = Val(hist.before).names[i]

\* C7 witness: the first answer to come back was not that of the
\* lowest-indexed endpoint and carried another id
C7_Witness ==
    /\ EvmStepDone
    /\ \E i \in DOMAIN Val(hist.before).names :
          LET b == Val(hist.before)
          IN  /\ Cardinality(Answered(i)) >= 2
              /\ b.order[i][1] \in Answered(i)
              /\ \E k \in Answered(i) :
                    /\ k < b.order[i][1]
                    /\ EthereumId(b.responses[i][k]) # EthereumId(b.responses[i][b.order[i][1]])

\* the workers of the chain data step that is under way
WorkersNow ==
    IF IsSet(inflight) /\ "workers" \in DOMAIN Val(inflight) THEN Val(inflight).workers ELSE <<>>

HealthyIdx(rpcs) == {i \in DOMAIN rpcs : rpcs[i].isHealthy}

\* the n-th healthy endpoint, counted from 1 in the order of the rpc list
NthHealthy(rpcs, n) ==
    CHOOSE i \in HealthyIdx(rpcs) : Cardinality({j \in HealthyIdx(rpcs) : j <= i}) = n

\* C8: a worker whose probes found H healthy endpoints never makes more than
\* 2*H attempts, its k-th attempt goes to healthy endpoint (k-1) mod H counted
\* from the first healthy one, and a worker that gave up has made exactly 2*H
\* attempts and has persisted its chain with isHealthy = false.
C8_RetryBudget ==
    \A c \in DOMAIN WorkersNow :
        LET w == WorkersNow[c]
            rpcs == w.chain.rpcs
            H == Cardinality(HealthyIdx(rpcs))
        IN  w.phase \in {"extracting", "done"} =>
              /\ Len(w.log) <= 2 * H
              /\ \A k \in DOMAIN w.log : w.log[k] = rpcs[NthHealthy(rpcs, ((k - 1) % H) + 1)].url
              /\ w.outcome = "exhausted" =>
                    /\ Len(w.log) = 2 * H
                    /\ c \in DOMAIN chains
                    /\ ~chains[c].isHealthy

\* a worker gave up after 6 failed attempts on 3 healthy endpoints
C8_Witness ==
    \E c \in DOMAIN WorkersNow :
        /\ WorkersNow[c].outcome = "exhausted"
        /\ Cardinality(HealthyIdx(WorkersNow[c].chain.rpcs)) = 3
        /\ Len(WorkersNow[c].log) = 6

\* the tokens derived for a chain: its id is the anchor of their ids
TokensOfChain(coll, c) == {t \in DOMAIN coll : t[1] = c}

\* C9: once a worker has given up (budget exhausted or no healthy endpoint),
\* the tokens of its chain are the ones the step started with, field by
\* field, and the chain differs from the one the step started with in its
\* health flags only.
C9_FailureLeavesTokens ==
    \A c \in DOMAIN WorkersNow :
        WorkersNow[c].outcome = "exhausted" =>
            LET start == Val(inflight).start
            IN  /\ TokensOfChain(tokens, c) = TokensOfChain(start.tokens, c)
                /\ \A t \in TokensOfChain(tokens, c) : tokens[t] = start.tokens[t]
                /\ c \in DOMAIN chains
                /\ Len(chains[c].rpcs) = Len(start.chains[c].rpcs)
                /\ \A i \in DOMAIN chains[c].rpcs : chains[c].rpcs[i].url = start.chains[c].rpcs[i].url
                /\ [chains[c] EXCEPT !.rpcs = start.chains[c].rpcs,
                                     !.isHealthy = start.chains[c].isHealthy] = start.chains[c]

\* a worker gave up on a healthy endpoint while its chain had an OrmlToken
\* and a NativeToken from an earlier run
C9_Witness ==
    \E c \in DOMAIN WorkersNow :
        /\ WorkersNow[c].outcome = "exhausted"
        /\ Len(WorkersNow[c].log) > 0
        /\ IsSet(chains[c].nativeToken)
        /\ Val(chains[c].nativeToken) \in DOMAIN tokens
        /\ \E t \in DOMAIN tokens : tokens[t].isTypeOf = "OrmlToken" /\ tokens[t].chain = Some(c)

\* the stored chains and networks that refer to token t, as its anchor or as
\* the ones it is native to
ChainReferrers(t) ==
    {c \in DOMAIN chains : tokens[t].chain = Some(c) \/ chains[c].nativeToken = Some(t)}
EvmNetworkReferrers(t) ==
    {n \in DOMAIN evmNetworks : tokens[t].evmNetwork = Some(n) \/ evmNetworks[n].nativeToken = Some(t)}

\* C10: right after updateTokensTestnetField every token's isTestnet is the
\* AND of the isTestnet flags of the stored chains and networks that refer
\* to it (TRUE when none does).
C10_TestnetIsAndOfReferrers ==
    hist.lastStep = "updateTokensTestnetField" =>
        \A t \in DOMAIN tokens :
            tokens[t].isTestnet <=>
                /\ \A c \in ChainReferrers(t) : chains[c].isTestnet
                /\ \A n \in EvmNetworkReferrers(t) : evmNetworks[n].isTestnet

\* a token shared by a testnet and a non-testnet entity got FALSE, and a
\* token nothing stored refers to got TRUE
C10_Witness ==
    /\ hist.lastStep = "updateTokensTestnetField"
    /\ \E t \in DOMAIN tokens :
          /\ \E c \in ChainReferrers(t), n \in EvmNetworkReferrers(t) :
                chains[c].isTestnet /= evmNetworks[n].isTestnet
          /\ ~tokens[t].isTestnet
    /\ \E t \in DOMAIN tokens :
          /\ ChainReferrers(t) = {}
          /\ EvmNetworkReferrers(t) = {}
          /\ tokens[t].isTestnet

RatesStepDone == hist.lastStep = "updateTokenRates" /\ IsSet(hist.before)

\* C11: right after updateTokenRates a token has a rates snapshot if and only
\* if it is not a testnet token, has a coingeckoId and the price response of
\* this run has an entry for that id; every other token has rates = null.
C11_RatesIffQuoted ==
    RatesStepDone =>
        \A t \in DOMAIN tokens :
            IsSet(tokens[t].rates) <=>
                /\ ~tokens[t].isTestnet
                /\ IsSet(tokens[t].coingeckoId)
                /\ Val(tokens[t].coingeckoId) \in DOMAIN Val(hist.before).coingeckoPrices

\* a token that held a quote before the step and whose id the response of
\* this run does not carry has lost it
C11_Witness ==
    /\ RatesStepDone
    /\ \E t \in DOMAIN tokens :
          /\ IsSet(Val(hist.before).tokens[t].rates)
          /\ ~tokens[t].isTestnet
          /\ IsSet(tokens[t].coingeckoId)
          /\ Val(tokens[t].coingeckoId) \notin DOMAIN Val(hist.before).coingeckoPrices
          /\ tokens[t].rates = Null

\* C12: when a config-feed fetch or the price fetch fails, the run ends
\* there and the store is the one the run started from; a failed config
\* fetch leaves the three shared lists as they were.
C12_FailedFetchAppliesNothing ==
    hist.lastStep = "aborted" =>
        /\ pc = 0
        /\ Graph = Val(hist.prevGraph)
        /\ Val(hist.before).step = "fetchDataFromGithub" =>
              processorSharedData = Val(hist.before).shared

\* the price fetch failed after the earlier steps of the run had changed the
\* store, and the changes are gone
C12_Witness ==
    /\ hist.lastStep = "aborted"
    /\ Val(hist.before).step = "updateTokenRates"
    /\ Val(hist.before).graph # Graph
    /\ Graph = Val(hist.prevGraph)

\* C13: after updateEvmNetworksFromGithub every entity of the run one of
\* whose endpoints answered a valid id is persisted under the id its
\* lowest-indexed answering endpoint returned.
C13_AffirmedNetworkPersisted ==
    EvmStepDone =>
        \A i \in DOMAIN Val(hist.before).entities :
            Answered(i) # {} =>
                LET first == CHOOSE k \in Answered(i) : \A m \in Answered(i) : k <= m
                IN  Val(EthereumId(Val(hist.before).responses[i][first])) \in DOMAIN evmNetworks

\* C14: an entity none of whose endpoints answered in this run has changed
\* nothing: the network stored for it before the step is stored unchanged
\* after it, and when none was stored none has been created.
C14_UnansweredRecordUntouched ==
    EvmStepDone =>
        \A i \in DOMAIN Val(hist.before).entities :
            LET b == Val(hist.before)
                e == b.entities[i]
            IN  Answered(i) = {} =>
                    IF IsSet(e.id)
                    THEN /\ Val(e.id) \in DOMAIN evmNetworks
                         /\ evmNetworks[Val(e.id)] = b.stored[Val(e.id)]
                    ELSE \A n \in DOMAIN evmNetworks \ DOMAIN b.stored : evmNetworks[n].name # e.name

\* the stored networks linked to a stored chain, as <<network id, chain id>>
LinkedNetworks ==
    {<<n, Val(evmNetworks[n].substrateChain)>> :
        n \in {x \in DOMAIN evmNetworks : /\ IsSet(evmNetworks[x].substrateChain)
                                          /\ Val(evmNetworks[x].substrateChain) \in DOMAIN chains}}

\* the records of the EVM feed linked to chain c
RecordsLinkedTo(c) ==
    {r \in Range(processorSharedData.githubEvmNetworks) : r.substrateChainId = Some(c)}

\* C16 as stated: after updateEvmNetworksFromGithub a network linked to a
\* stored chain has that chain's isTestnet and that chain's name
C16_LinkedInheritsFlagAndName ==
    EvmStepDone =>
        \A p \in LinkedNetworks :
            /\ evmNetworks[p[1]].isTestnet = chains[p[2]].isTestnet
            /\ evmNetworks[p[1]].name = chains[p[2]].name

\* C16 amended: after updateEvmNetworksFromGithub a network linked to a stored
\* chain has that chain's isTestnet, and its name is the name of its source
\* record when the record has one, the chain's name otherwise
C16_LinkedInheritsFlagNameFallsBack ==
    EvmStepDone =>
        \A p \in LinkedNetworks :
            /\ evmNetworks[p[1]].isTestnet = chains[p[2]].isTestnet
            /\ \E r \in RecordsLinkedTo(p[2]) :
                  evmNetworks[p[1]].name = IF IsSet(r.name) THEN r.name ELSE chains[p[2]].name

\* a linked network took the testnet flag of its chain against its record,
\* and the name of its record against its chain
C16_Witness ==
    /\ EvmStepDone
    /\ \E p \in LinkedNetworks :
          /\ evmNetworks[p[1]].isTestnet
          /\ chains[p[2]].isTestnet
          /\ \E r \in RecordsLinkedTo(p[2]) :
                /\ r.isTestnet = Null
                /\ IsSet(r.name)
                /\ evmNetworks[p[1]].name = r.name
                /\ r.name # chains[p[2]].name

\* the block the hook is being called for is skipped by one of its two tests
Skipped(block) ==
    \/ Val(block).height % 50 # 0
    \/ Val(block).age > 86400000

\* C15: a hook called for a block that is too old or whose height is not a
\* multiple of 50 starts no step and leaves the store, the fetched lists
\* and the requests in flight as they were; a run that has started goes
\* from each step to the next and ends only after the last one.
C15_StaleBlockRunsNothing ==
    [][/\ (pc = 0 /\ IsSet(hist'.block) /\ Skipped(hist'.block)) =>
            /\ pc' = 0
            /\ <<chains, evmNetworks, tokens, processorSharedData, inflight>>' =
                   <<chains, evmNetworks, tokens, processorSharedData, inflight>>
       /\ pc # 0 =>
            \/ pc' = pc
            \/ pc' = pc + 1 /\ pc < Len(plan)
            \/ pc' = 0 /\ pc = Len(plan)]_vars

\* the hook returned at once for a block of height 50 or 100 that was older
\* than the threshold
C15_Witness ==
    /\ hist.lastStep = "skipped"
    /\ pc = 0
    /\ Val(hist.block).height % 50 = 0
    /\ Val(hist.block).age > 86400000

\* the order the steps are to run in
StepOrder ==
    <<"fetchDataFromGithub", "updateChainsFromGithub", "updateChainData",
      "updateEvmNetworksFromGithub", "updateSortIndexes", "updateTokensFromGithub",
      "updateTokensTestnetField", "updateTokenRates">>

\* C17: the run moves from the hook to the fetch and then from each step to
\* the one after it in the fixed order, a step ending exactly when the run
\* moves on; the run ends after the price refresh.
C17_StepsInFixedOrder ==
    [][pc' # pc =>
          IF pc = 0
          THEN pc' = 1 /\ hist'.lastStep = "postHook"
          ELSE /\ pc \in DOMAIN StepOrder
               /\ hist'.lastStep = StepOrder[pc]
               /\ pc' = IF pc = Len(StepOrder) THEN 0 ELSE pc + 1]_vars

\* a run went through to the price refresh, which quoted a token the testnet
\* propagation of the same run had just marked as not a testnet token
C17_Witness ==
    /\ RunComplete
    /\ \E t \in DOMAIN tokens :
          /\ IsSet(tokens[t].rates)
          /\ ~tokens[t].isTestnet
          /\ ChainReferrers(t) # {}

\* what a worker shows of its attempts: those started, and those ended with
\* their connection closed
AttemptsInOrder(w) ==
    /\ w.closed \in {Len(w.log), Len(w.log) - 1}
    /\ IsSet(w.socket) <=> w.closed = Len(w.log) - 1
    /\ IsSet(w.socket) => w.phase = "extracting" /\ w.attempt = Len(w.log)
    /\ w.phase = "extracting" /\ w.socket = Null => w.attempt = Len(w.log) + 1
    /\ w.outcome = "extracted" => w.phase = "done" /\ w.socket = Null

\* C18: of each chain at most one extraction attempt is in flight at any time:
\* an attempt starts only when every attempt before it has ended in failure
\* and has had its disconnect called, attempts are started one at a time, and
\* none starts once an attempt has succeeded.
C18_OneAttemptAtATime ==
    /\ [](\A c \in DOMAIN WorkersNow : AttemptsInOrder(WorkersNow[c]))
    /\ [][\A c \in DOMAIN WorkersNow \cap DOMAIN WorkersNow' :
            LET w == WorkersNow[c]
                v == WorkersNow'[c]
            IN  /\ Len(v.log) \in {Len(w.log), Len(w.log) + 1}
                /\ SubSeq(v.log, 1, Len(w.log)) = w.log
                /\ Len(v.log) > Len(w.log) =>
                      /\ w.socket = Null
                      /\ w.closed = Len(w.log)
                      /\ w.outcome = "none"
                      /\ w.phase = "extracting"]_vars

\* a second attempt is in flight after the first has failed, and a worker has
\* returned on its second attempt
C18_Witness ==
    /\ \E c \in DOMAIN WorkersNow :
          /\ WorkersNow[c].outcome = "extracted"
          /\ Len(WorkersNow[c].log) = 2
    /\ \E c \in DOMAIN WorkersNow :
          /\ IsSet(WorkersNow[c].socket)
          /\ Len(WorkersNow[c].log) = 2
          /\ WorkersNow[c].closed = 1

\* what the latest step of a worker met at its endpoints, Null when it met none
EventNow ==
    IF IsSet(inflight) /\ "event" \in DOMAIN Val(inflight) THEN Val(inflight).event ELSE Null

\* C20: every probe and every extraction attempt has its socket.disconnect()
\* called, whatever the probe or the attempt met, and a disconnect that throws
\* changes nothing of what was decided: the endpoint keeps the health its
\* request earned, an attempt that got the data ends the worker as extracted,
\* a failed attempt leaves the worker at its next attempt, and the step goes on.
C20_TeardownKeepsOutcome ==
    IsSet(EventNow) =>
        LET e == Val(EventNow)
            w == WorkersNow[e.chain]
        IN  /\ AtStep("updateChainData")
            /\ w.socket = Null
            /\ w.closed = Len(w.log)
            /\ e.kind = "probes" =>
                  /\ e.closed = DOMAIN w.chain.rpcs
                  /\ e.threw \subseteq e.closed
                  /\ \A i \in DOMAIN w.chain.rpcs :
                        chains[e.chain].rpcs[i].isHealthy = e.answered[i]
                  /\ w.phase = "extracting"
                  /\ w.attempt = 1
            /\ e.kind = "attempt" /\ e.result = "data" =>
                  /\ w.phase = "done"
                  /\ w.outcome = "extracted"
            /\ e.kind = "attempt" /\ e.result = "failed" =>
                  /\ w.phase = "extracting"
                  /\ w.outcome = "none"
                  /\ w.attempt = Len(w.log) + 1

\* an attempt that got the data after a failed one, its disconnect throwing
C20_Witness ==
    /\ IsSet(EventNow)
    /\ Val(EventNow).kind = "attempt"
    /\ Val(EventNow).result = "data"
    /\ Val(EventNow).disconnect = "error"
    /\ Len(WorkersNow[Val(EventNow).chain].log) = 2

Erc20Tokens(coll) == {t \in DOMAIN coll : coll[t].isTypeOf = "Erc20Token"}

\* the ids of the feed's records that give a contract address and the id of a
\* network the store holds
AffirmedErc20Ids ==
    LET feed == processorSharedData.githubTokens
    IN  {erc20TokenId(ToString(Val(feed[i].evmNetworkId)), Val(feed[i].contractAddress)) :
            i \in {j \in DOMAIN feed : /\ IsSet(feed[j].contractAddress)
                                       /\ IsSet(feed[j].evmNetworkId)
                                       /\ ToString(Val(feed[j].evmNetworkId)) \in DOMAIN evmNetworks}}

\* C21: after updateTokensFromGithub the persisted Erc20Tokens are exactly the
\* tokens of the feed records that give a contract address and the id of a
\* persisted EvmNetwork: a record whose network is not persisted creates no
\* token, and an Erc20Token no record re-affirmed is deleted.
C21_Erc20AreAffirmed ==
    hist.lastStep = "updateTokensFromGithub" => Erc20Tokens(tokens) = AffirmedErc20Ids

\* the step kept a token, dropped a record whose network is not persisted and
\* deleted a token the store held when the run began
C21_Witness ==
    /\ hist.lastStep = "updateTokensFromGithub"
    /\ Erc20Tokens(tokens) # {}
    /\ \E i \in DOMAIN processorSharedData.githubTokens :
          LET r == processorSharedData.githubTokens[i]
          IN  /\ IsSet(r.contractAddress) /\ IsSet(r.evmNetworkId)
              /\ ToString(Val(r.evmNetworkId)) \notin DOMAIN evmNetworks
    /\ Erc20Tokens(Val(committed).tokens) \ Erc20Tokens(tokens) # {}

\* the OrmlTokens of the symbols among syms that the extraction has a storage
\* key for
KeyedOrmlIds(c, syms, data) ==
    {ormlTokenId(c, syms[i]) : i \in {j \in DOMAIN syms : syms[j] \in DOMAIN TokenStateKeys(c, data)}}

\* the step of the worker of chain c in which its attempt got the data
ExtractionOf(c) ==
    /\ c \in DOMAIN WorkersNow /\ c \in DOMAIN WorkersNow'
    /\ WorkersNow[c].outcome = "none"
    /\ WorkersNow'[c].outcome = "extracted"

\* the OrmlTokens of the other chains are the ones there were, field by field
OtherOrmlTokensKept(c) ==
    \A t \in DOMAIN tokens \cup DOMAIN tokens' :
        LET held == IF t \in DOMAIN tokens THEN tokens[t] ELSE tokens'[t]
        IN  held.isTypeOf = "OrmlToken" /\ held.chain # Some(c) =>
                /\ t \in DOMAIN tokens /\ t \in DOMAIN tokens'
                /\ tokens'[t] = tokens[t]

\* C22 as stated: a successful extraction for chain c leaves, as the
\* OrmlTokens of c, exactly those of the reported symbols that have a storage
\* key, whatever c had before, and leaves the OrmlTokens of other chains alone.
C22_OrmlOfKeyedSymbols ==
    [][\A c \in DOMAIN WorkersNow : ExtractionOf(c) =>
          LET data == Val(EventNow').data
          IN  /\ ExistingOrmlTokens(tokens', c) = KeyedOrmlIds(c, TokenSymbols(c, data), data)
              /\ OtherOrmlTokensKept(c)]_vars

\* C22 amended: the symbols are those of a reported symbol list (or of the
\* chain's override); a chain that reports a single symbol and no list keeps
\* no OrmlToken, with or without a storage key for that symbol.
C22_OrmlOfKeyedListSymbols ==
    [][\A c \in DOMAIN WorkersNow : ExtractionOf(c) =>
          LET data == Val(EventNow').data
              listed == IF IsSet(tokenSymbolWorkarounds(c)) \/ data.isArray
                        THEN TokenSymbols(c, data) ELSE <<>>
          IN  /\ ExistingOrmlTokens(tokens', c) = KeyedOrmlIds(c, listed, data)
              /\ OtherOrmlTokensKept(c)]_vars

\* an extraction that got a single symbol (with a storage key) has just
\* deleted the OrmlToken its chain held when the step began, while another
\* chain holds the OrmlToken of the keyed symbol of its list
C22_Witness ==
    /\ IsSet(EventNow)
    /\ Val(EventNow).kind = "attempt"
    /\ Val(EventNow).result = "data"
    /\ LET c == Val(EventNow).chain
           data == Val(EventNow).data
       IN  /\ ~data.isArray
           /\ data.tokenSymbol[1] \in DOMAIN TokenStateKeys(c, data)
           /\ ExistingOrmlTokens(Val(inflight).start.tokens, c) = {ormlTokenId(c, "AUSD")}
           /\ ExistingOrmlTokens(tokens, c) = {}
           /\ \E d \in DOMAIN chains \ {c} :
                 ExistingOrmlTokens(tokens, d) = {ormlTokenId(d, "AUSD")}

SomeRpcHealthy(e) == \E i \in DOMAIN e.rpcs : e.rpcs[i].isHealthy

\* the chains whose worker has returned
ProcessedChains == {c \in DOMAIN WorkersNow : WorkersNow[c].phase = "done"}

\* every persisted EvmNetwork is healthy exactly when one of its rpcs is
NetworkHealthIsOr ==
    \A n \in DOMAIN evmNetworks : evmNetworks[n].isHealthy <=> SomeRpcHealthy(evmNetworks[n])

\* C23 as stated: every EvmNetwork saved by updateEvmNetworksFromGithub and
\* every Chain processed by updateChainData is healthy exactly when at least
\* one of its rpcs is healthy.
C23_HealthIsOrOfRpcs ==
    /\ NetworkHealthIsOr
    /\ \A c \in ProcessedChains : chains[c].isHealthy <=> SomeRpcHealthy(chains[c])

\* C23 amended: a Chain is healthy exactly when at least one of its rpcs is
\* healthy and its metadata extraction succeeded; a chain whose attempts all
\* failed is unhealthy while its rpcs keep the flags their probes gave them.
C23_ChainHealthNeedsExtraction ==
    /\ NetworkHealthIsOr
    /\ \A c \in ProcessedChains :
          chains[c].isHealthy <=>
              SomeRpcHealthy(chains[c]) /\ WorkersNow[c].outcome = "extracted"

\* a worker has given up on a chain with a healthy rpc, while the store holds
\* a healthy network with an unhealthy rpc next to a healthy one
C23_Witness ==
    /\ \E c \in ProcessedChains :
          /\ WorkersNow[c].outcome = "exhausted"
          /\ SomeRpcHealthy(chains[c])
          /\ ~chains[c].isHealthy
    /\ \E n \in DOMAIN evmNetworks :
          /\ evmNetworks[n].isHealthy
          /\ \E i \in DOMAIN evmNetworks[n].rpcs : ~evmNetworks[n].rpcs[i].isHealthy

\* a network with neither a chain reference nor a name
Unanchored(e) == ~IsSet(e.substrateChain) /\ ~IsSet(e.name)

\* C24: after updateEvmNetworksFromGithub no persisted EvmNetwork is without
\* both a chain reference and a name: one that the store held before the run
\* is deleted, or a named network re-affirmed under its id has taken its
\* place; of the networks the store held, the step's test for an invalid
\* network selected none.
C24_NoUnanchoredNetwork ==
    hist.lastStep = "updateEvmNetworksFromGithub" =>
        /\ \A n \in DOMAIN evmNetworks : ~Unanchored(evmNetworks[n])
        /\ \A n \in DOMAIN Val(hist.prevGraph).evmNetworks :
              ~IsInvalidEntity(Val(hist.prevGraph).evmNetworks[n])

\* the run began with a network that had neither, and a named network is now
\* persisted under its id
C24_Witness ==
    /\ hist.lastStep = "updateEvmNetworksFromGithub"
    /\ \E n \in DOMAIN Val(hist.prevGraph).evmNetworks :
          /\ Unanchored(Val(hist.prevGraph).evmNetworks[n])
          /\ n \in DOMAIN evmNetworks
          /\ IsSet(evmNetworks[n].name)

\* the id entity i of the step just done has after its probes
ElectedId(i) ==
    Elected(Val(hist.before).entities[i], EthereumIds(Val(hist.before).responses)[i]).id

\* C25: an entity that was persisted under id X and whose probes elected
\* another id Y in this run is persisted under Y after the step, and no
\* network is persisted under X unless another entity of the run has id X.
C25_RekeyedNetworkMoves ==
    EvmStepDone =>
        \A i \in DOMAIN Val(hist.before).entities :
            LET e == Val(hist.before).entities[i]
            IN  IsSet(e.id) /\ Answered(i) # {} /\ ElectedId(i) # e.id =>
                    /\ Val(ElectedId(i)) \in DOMAIN evmNetworks
                    /\ evmNetworks[Val(ElectedId(i))].name = e.name
                    /\ Val(e.id) \in DOMAIN evmNetworks =>
                          \E j \in DOMAIN Val(hist.before).entities \ {i} : ElectedId(j) = e.id

\* the chain data step has just ended with its workers run one by one
WorkersStepDone ==
    /\ hist.lastStep = "updateChainData"
    /\ IsSet(hist.before)
    /\ "outcomes" \in DOMAIN Val(hist.before)

\* chain c and the tokens derived from c are what they were
OwnEntitiesKept(c) ==
    /\ c \in DOMAIN chains <=> c \in DOMAIN chains'
    /\ c \in DOMAIN chains => chains'[c] = chains[c]
    /\ TokensOfChain(tokens', c) = TokensOfChain(tokens, c)
    /\ \A t \in TokensOfChain(tokens, c) : tokens'[t] = tokens[t]

\* C26: a step of the worker of one chain leaves every other chain and the
\* tokens derived from it as they were, and once every worker has returned
\* the store is the one the workers leave when they run one after the other
\* on the same probe and extraction outcomes, however they were interleaved.
C26_WorkersWriteDisjoint ==
    /\ [][\A c \in DOMAIN WorkersNow \cap DOMAIN WorkersNow' :
             WorkersNow'[c] = WorkersNow[c] => OwnEntitiesKept(c)]_vars
    /\ [](WorkersStepDone =>
             Graph = RunChainWorkers(Val(hist.before).start, DOMAIN Val(hist.before).start.chains,
                                     Val(hist.before).outcomes))

\* two workers ran at the same time, both extracted, and each chain has an
\* OrmlToken
C26_Witness ==
    /\ WorkersStepDone
    /\ Val(hist.before).overlap
    /\ Cardinality(DOMAIN Val(hist.before).outcomes) = 2
    /\ \A c \in DOMAIN Val(hist.before).outcomes :
          /\ IsSet(Val(hist.before).outcomes[c].result)
          /\ ExistingOrmlTokens(tokens, c) # {}

====
